---- MODULE Spec2Model ----
(***************************************************************************)
(* Family Bank ledger: the single-table store of backend/src/common/       *)
(* dynamodb.py, the request handlers of backend/src/lambdas and the        *)
(* monthly interest job, as a state machine.                               *)
(*                                                                         *)
(* Money is a Decimal in the code.  Here every amount is an integer count  *)
(* of thousandths (1.00 is 1000), so that sums are exact and a value finer *)
(* than a cent stays representable.  An interest rate is an integer count  *)
(* of hundredths (0.05 is 5).  A timestamp is the value of a wall clock    *)
(* that never runs backwards; a transaction id is a fresh number.          *)
(***************************************************************************)
EXTENDS Integers, Sequences, FiniteSets, TLC

--------------------------------------------------------------------------
(* Bounds *)

\* Number of adjust_balance_with_transaction calls issued in one run.
MaxCalls == 2
\* Largest value the wall clock reaches.
MaxClock == 1

--------------------------------------------------------------------------
(* Inputs *)

ParentIds == {"p1", "p2"}
\* The subs the identity directory issues, in order of creation.
ChildSubs == <<"c1">>
ChildIds == {ChildSubs[i] : i \in 1..Len(ChildSubs)}
\* Children whose rows exist when a run of the job is studied on its own.
SeededChildren == {"c1", "c2"}
UserIds == ParentIds \cup ChildIds \cup SeededChildren

\* An absent optional argument (Python's None) for a string and for a rate.
None == "None"
NoRate == -1

\* Arguments the store's methods are called with directly.
StoreUsers == {"c1"}
StoreBalances == {10000}
StoreAmounts == {-10000, 0, 10000}
StoreUpdateArgs == {<<"Bob", NoRate>>}
StoreRoleArgs == {<<"child", "p1">>}

\* Request bodies the handlers receive.
ReqAmounts == {-10000, 0, 10000}
ReqInitialBalances == {-1000, 10000}
ReqRates == {5}
ReqTargets == {"c1"}
ReqUpdateArgs == {<<"Bob", NoRate>>, <<None, NoRate>>}
Emails == {"e1"}

\* Invocations that run side by side: two request or library clients and the job.
Clients == {"r1", "r2"}
Procs == Clients \cup {"job"}

\* Verified callers (the token's sub) and their Cognito group.
Callers == {"p1", "p2", "c1"}
IsParent(caller) == caller \in ParentIds
\* Callers of the create-child handler (one parent stands for either).
ChildCreators == {"p1", "c1"}

--------------------------------------------------------------------------
(* models.py *)

DEFAULT_INTEREST_RATE == 5
DEFAULT_CHILD_BALANCE == 0

\* A sort key made of the timestamp alone.
transaction_sk_TimestampOnly(timestamp, transaction_id) == <<"TRANS", timestamp, 0>>

user_pk(user_id) == <<"USER", user_id>>
profile_sk == <<"PROFILE">>
transaction_sk(timestamp, transaction_id) == <<"TRANS", timestamp, transaction_id>>
parent_gsi1_pk(parent_id) == <<"PARENT", parent_id>>
child_gsi1_sk(child_id) == <<"CHILD", child_id>>
role_gsi2_pk(role) == <<"ROLE", role>>
user_gsi2_sk(user_id) == <<"USER", user_id>>

ProfileKey(user_id) == <<user_pk(user_id), profile_sk>>

--------------------------------------------------------------------------
(* State *)

VARIABLES
    table,      \* the DynamoDB table: key <<PK, SK>> -> item
    now,        \* the wall clock datetime.utcnow() reads
    nextTx,     \* number of transaction ids (uuid4) generated so far
    cognito,    \* the identity directory: email -> the user created for it
    subs,       \* number of subs the identity directory has issued
    pc,         \* position of each invocation in its handler or method
    loc,        \* local variables of each invocation in flight
    job,        \* local variables of the interest job's run
    last,       \* outcome of the call or request that completed most recently:
                \* "ok", "Created", or the name of the exception it raised
    created,    \* history: balance each profile row was last put with
    overwritten,\* history: users whose profile row a put replaced
    returned,   \* history: the transaction dicts returned to callers
    writes      \* history: transaction id -> balance just before and just after its write

vars == <<table, now, nextTx, cognito, subs, pc, loc, job, last,
          created, overwritten, returned, writes>>

HasProfile(t, user_id) == ProfileKey(user_id) \in DOMAIN t
Profile(t, user_id) == t[ProfileKey(user_id)]
Has(item, attr) == attr \in DOMAIN item
\* dict.get(attr, default)
Get(item, attr, default) == IF attr \in DOMAIN item THEN item[attr] ELSE default

IsTransactionKey(k) == k[2][1] = "TRANS"
TransactionKeys(t, user_id) == {k \in DOMAIN t : k[1] = user_pk(user_id) /\ IsTransactionKey(k)}
Transactions(t, user_id) == {t[k] : k \in TransactionKeys(t, user_id)}
AllTransactionKeys(t) == {k \in DOMAIN t : IsTransactionKey(k)}

\* response.get("Item") when the key holds nothing, and Python's "not item".
NoItem == <<>>
Missing(item) == DOMAIN item = {}

\* put_item / the Put of a transaction: the item replaces whatever the key held.
PutItem(t, key, item) == [k \in DOMAIN t \cup {key} |-> IF k = key THEN item ELSE t[k]]

Idle == [via |-> None, caller |-> None, user |-> None, amount |-> 0, ttype |-> None,
         by |-> None, ts |-> 0, txid |-> 0, cur |-> 0, new |-> 0,
         email |-> None, name |-> None, rate |-> NoRate,
         rival |-> "none", rivalAmount |-> 0, body |-> <<>>,
         token |-> [kind |-> "none"], start |-> [kind |-> "none"], page |-> <<>>,
         event |-> <<>>, required |-> {},
         jwks_cache |-> None, jwks_cache_time |-> 0, fetch |-> "none"]
NoRun == [children |-> <<>>, totalChildren |-> 0, successful |-> 0, skipped |-> 0,
          failed |-> 0, scanned |-> 0, touched |-> {}, base |-> {}]

Init ==
    /\ table = <<>>
    /\ now = 0
    /\ nextTx = 0
    /\ cognito = <<>>
    /\ subs = 0
    /\ pc = [p \in Procs |-> "idle"]
    /\ loc = [p \in Procs |-> Idle]
    /\ job = NoRun
    /\ last = None
    /\ created = <<>>
    /\ overwritten = {}
    /\ returned = {}
    /\ writes = <<>>

\* datetime.utcnow(): the clock has stood still or moved on since it was last read.
Timestamps == {t \in {now, now + 1} : t <= MaxClock}

--------------------------------------------------------------------------
(* dynamodb.py: the store's methods as functions of the table *)

\* A lookup that makes up a row for an id that has none.
get_user_profile_DefaultRow(t, user_id) ==
    IF ProfileKey(user_id) \in DOMAIN t THEN t[ProfileKey(user_id)] ELSE [userId |-> user_id]

\* get_user_profile: response.get("Item"); reads only.
get_user_profile(t, user_id) == IF HasProfile(t, user_id) THEN Profile(t, user_id) ELSE NoItem

\* An item built without the keys of the two indexes.
ProfileItem_NoIndexKeys(user_id, email, name, role, parent_id, balance, interest_rate, timestamp) ==
    LET item == [userId |-> user_id, email |-> email, name |-> name, role |-> role,
                 balance |-> balance, interestRate |-> interest_rate,
                 createdAt |-> timestamp, updatedAt |-> timestamp]
    IN  IF role = "child" /\ parent_id # None
        THEN item @@ [parentId |-> parent_id]
        ELSE item

\* The item create_user_profile builds.
ProfileItem(user_id, email, name, role, parent_id, balance, interest_rate, timestamp) ==
    LET item == [userId |-> user_id, email |-> email, name |-> name, role |-> role,
                 balance |-> balance, interestRate |-> interest_rate,
                 createdAt |-> timestamp, updatedAt |-> timestamp]
    IN  IF role = "child" /\ parent_id # None
        THEN item @@ [parentId |-> parent_id,
                      GSI1PK |-> parent_gsi1_pk(parent_id), GSI1SK |-> child_gsi1_sk(user_id),
                      GSI2PK |-> role_gsi2_pk("child"), GSI2SK |-> user_gsi2_sk(user_id)]
        ELSE item

\* create_user_profile: table.put_item(Item=item), with no condition.
create_user_profile(t, user_id, email, name, role, parent_id, balance, interest_rate, timestamp) ==
    PutItem(t, ProfileKey(user_id),
            ProfileItem(user_id, email, name, role, parent_id, balance, interest_rate, timestamp))

\* The attributes update_user_profile SETs.
UpdateAttributes(name, interest_rate, timestamp) ==
    [updatedAt |-> timestamp]
        @@ (IF name # None THEN [name |-> name] ELSE <<>>)
        @@ (IF interest_rate # NoRate THEN [interestRate |-> interest_rate] ELSE <<>>)

\* An update that stores the SET attributes as the whole item.
update_user_profile_ReplacesItem(t, user_id, name, interest_rate, timestamp) ==
    PutItem(t, ProfileKey(user_id), UpdateAttributes(name, interest_rate, timestamp))

\* update_user_profile: table.update_item with no condition: the attributes are
\* set on the item the key holds, and on a new item when the key holds none.
update_user_profile(t, user_id, name, interest_rate, timestamp) ==
    LET old == IF HasProfile(t, user_id) THEN Profile(t, user_id) ELSE <<>>
    IN  PutItem(t, ProfileKey(user_id), UpdateAttributes(name, interest_rate, timestamp) @@ old)

\* current_balance = Decimal(str(user_profile.get("balance", 0)))
CurrentBalance(user_profile) == Get(user_profile, "balance", 0)

\* new_balance = current_balance + amount
NewBalance(current_balance, amount) == current_balance + amount

\* A funds check that never refuses.
InsufficientFunds_Never(new_balance) == FALSE

\* if new_balance < 0: raise InsufficientFundsError
InsufficientFunds(new_balance) == new_balance < 0

\* A condition that only asks for the row: attribute_exists(PK).
ConditionHolds_RowOnly(t, user_id, current_balance) == HasProfile(t, user_id)

\* ConditionExpression of the Update: attribute_exists(PK) AND balance = :current_balance
ConditionHolds(t, user_id, current_balance) ==
    /\ HasProfile(t, user_id)
    /\ Has(Profile(t, user_id), "balance")
    /\ Profile(t, user_id).balance = current_balance

\* A Put whose balanceAfter is the balance that was read.
TransactionItem_BalanceRead(c) ==
    [transactionId |-> c.txid, userId |-> c.user, amount |-> c.amount, type |-> c.ttype,
     balanceAfter |-> c.cur, initiatedBy |-> c.by, timestamp |-> c.ts]

\* The item of the Put.
TransactionItem(c) ==
    [transactionId |-> c.txid, userId |-> c.user, amount |-> c.amount, type |-> c.ttype,
     balanceAfter |-> c.new, initiatedBy |-> c.by, timestamp |-> c.ts]

\* A write that puts the profile back with the default rate beside the new
\* balance, in place of an Update of the two attributes.
TransactWrite_DefaultRate(t, c) ==
    LET updated == [balance |-> c.new, updatedAt |-> c.ts,
                    interestRate |-> DEFAULT_INTEREST_RATE] @@ Profile(t, c.user)
    IN  PutItem(PutItem(t, ProfileKey(c.user), updated),
                <<user_pk(c.user), transaction_sk(c.ts, c.txid)>>, TransactionItem(c))

\* transact_write_items when nothing cancels it: the Update and the Put, together.
TransactWrite(t, c) ==
    LET updated == [balance |-> c.new, updatedAt |-> c.ts] @@ Profile(t, c.user)
    IN  PutItem(PutItem(t, ProfileKey(c.user), updated),
                <<user_pk(c.user), transaction_sk(c.ts, c.txid)>>, TransactionItem(c))

\* A cancelled write whose Put was applied all the same.
Cancelled_PutApplied(t, c) ==
    PutItem(t, <<user_pk(c.user), transaction_sk(c.ts, c.txid)>>, TransactionItem(c))

\* transact_write_items cancelled (TransactionCanceledException) or refused
\* (ClientError): neither the Update nor the Put is applied.
Cancelled(t, c) == t

\* Order of two transaction keys by sort key: TRANS#timestamp#transaction_id.
SortKeyLeq(j, k) == j[2][2] < k[2][2] \/ (j[2][2] = k[2][2] /\ j[2][3] <= k[2][3])

\* The items under the keys, in descending sort-key order (ScanIndexForward=False).
RECURSIVE NewestFirst(_, _)
NewestFirst(t, keys) ==
    IF keys = {} THEN <<>>
    ELSE LET k == CHOOSE k \in keys : \A j \in keys : SortKeyLeq(j, k)
         IN  <<t[k]>> \o NewestFirst(t, keys \ {k})

\* get_transactions without a next_token: the query PK = USER#user_id AND
\* begins_with(SK, TRANS#), newest first, at most limit items.
get_transactions(t, user_id, limit) ==
    LET items == NewestFirst(t, TransactionKeys(t, user_id))
    IN  SubSeq(items, 1, IF Len(items) < limit THEN Len(items) ELSE limit)

\* The keys in descending sort-key order.
RECURSIVE KeysNewestFirst(_)
KeysNewestFirst(keys) ==
    IF keys = {} THEN <<>>
    ELSE LET k == CHOOSE k \in keys : \A j \in keys : SortKeyLeq(j, k)
         IN  <<k>> \o KeysNewestFirst(keys \ {k})

\* A key as the dict a query takes (ExclusiveStartKey) and returns
\* (LastEvaluatedKey); no start key is the empty dict.
KeyDict(k) == [PK |-> k[1], SK |-> k[2]]
NoStartKey == <<>>

\* A next_token: none; or text that is no base64; or the base64 of text, which
\* is no JSON or is the JSON of a value.
NoToken == [kind |-> "none"]
NotBase64 == [kind |-> "garbage"]
Base64Of(text) == [kind |-> "base64", text |-> text]
NotJson == [kind |-> "text"]
JsonOf(value) == [kind |-> "json", value |-> value]

\* Lines 233-236: base64.b64encode(json.dumps(response["LastEvaluatedKey"]).encode()).decode()
EncodeToken(last_evaluated_key) == Base64Of(JsonOf(last_evaluated_key))

\* Line 222: json.loads(base64.b64decode(next_token)) raises (binascii.Error,
\* JSONDecodeError) unless the token is the base64 of JSON text.
DecodeRaises(next_token) ==
    \/ next_token.kind # "base64"
    \/ next_token.text.kind # "json"

\* Line 222, when it does not raise: the value the JSON text denotes.
DecodeToken(next_token) == next_token.text.value

\* Lines 217-225: the ExclusiveStartKey the query is given; a token that does
\* not decode is logged and left out.
ExclusiveStartKey(next_token) ==
    IF next_token.kind = "none" \/ DecodeRaises(next_token)
    THEN NoStartKey
    ELSE DecodeToken(next_token)

\* The store accepts a start key only if it is a key of the queried partition
\* under the queried sort-key prefix.
IsStartKeyFor(start, user_id) ==
    /\ DOMAIN start = {"PK", "SK"}
    /\ start.PK = user_pk(user_id)
    /\ start.SK[1] = "TRANS"

\* A query that resumes at the start key instead of after it.
QueryPage_FromStartKey(t, user_id, limit, start) ==
    LET keys == {k \in TransactionKeys(t, user_id) :
                    Missing(start) \/ SortKeyLeq(k, <<start.PK, start.SK>>)}
        order == KeysNewestFirst(keys)
        n == IF Len(order) < limit THEN Len(order) ELSE limit
    IN  [Items |-> [i \in 1..n |-> t[order[i]]],
         LastEvaluatedKey |-> IF Len(order) >= limit THEN KeyDict(order[n]) ELSE NoStartKey]

\* table.query(KeyConditionExpression, Limit, ScanIndexForward=False,
\* ExclusiveStartKey): the items of the partition after the start key, newest
\* first, at most limit of them; a LastEvaluatedKey when the limit was reached.
QueryPage(t, user_id, limit, start) ==
    LET keys == {k \in TransactionKeys(t, user_id) :
                    Missing(start) \/ ~SortKeyLeq(<<start.PK, start.SK>>, k)}
        order == KeysNewestFirst(keys)
        n == IF Len(order) < limit THEN Len(order) ELSE limit
    IN  [Items |-> [i \in 1..n |-> t[order[i]]],
         LastEvaluatedKey |-> IF Len(order) >= limit THEN KeyDict(order[n]) ELSE NoStartKey]

\* What the query call raises, None when it raises nothing: the client
\* library refuses a Limit below 1 (ParamValidationError, no ClientError); the
\* store refuses a start key that is no key of the partition
\* (ValidationException, a ClientError, re-raised as DatabaseError).
QueryRaises(user_id, limit, start) ==
    IF limit < 1 THEN "ParamValidationError"
    ELSE IF ~Missing(start) /\ ~IsStartKeyFor(start, user_id) THEN "DatabaseError"
    ELSE None

\* get_transactions(user_id, limit, next_token), lines 207-241: the dict it
\* returns when the query raises nothing.
GetTransactionsResult(t, user_id, limit, next_token) ==
    LET response == QueryPage(t, user_id, limit, ExclusiveStartKey(next_token))
    IN  [transactions |-> response.Items,
         nextToken |-> IF Missing(response.LastEvaluatedKey)
                       THEN NoToken
                       ELSE EncodeToken(response.LastEvaluatedKey)]

\* The dict adjust_balance_with_transaction returns.
ReturnedTransaction(c) ==
    [transactionId |-> c.txid, userId |-> c.user, amount |-> c.amount, balanceAfter |-> c.new]

\* Position of a user id in the order a key scan returns ids (ascending sort key).
UserOrder == <<"c1", "c2", "p1", "p2">>
RECURSIVE SelectInOrder(_, _)
SelectInOrder(ids, i) ==
    IF i > Len(UserOrder) THEN <<>>
    ELSE (IF UserOrder[i] \in ids THEN <<UserOrder[i]>> ELSE <<>>) \o SelectInOrder(ids, i + 1)

\* A scan that returns every profile row, whatever its role.
scan_all_children_EveryProfile(t) ==
    LET ids == {u \in UserIds : HasProfile(t, u)}
        order == SelectInOrder(ids, 1)
    IN  [i \in 1..Len(order) |-> Profile(t, order[i])]

\* scan_all_children with USE_ROLE_GSI at its default: the query of GSI2 for
\* GSI2PK = ROLE#child, every page followed, in ascending GSI2SK order.
scan_all_children(t) ==
    LET ids == {u \in UserIds : /\ HasProfile(t, u)
                                /\ Has(Profile(t, u), "GSI2PK")
                                /\ Profile(t, u).GSI2PK = role_gsi2_pk("child")}
        order == SelectInOrder(ids, 1)
    IN  [i \in 1..Len(order) |-> Profile(t, order[i])]

\* get_children_for_parent: the query of GSI1 for GSI1PK = PARENT#parent_id, in
\* ascending GSI1SK order; one call of query, whose page holds every child of
\* the parent while they fit one response.
get_children_for_parent(t, parent_id) ==
    LET ids == {u \in UserIds : /\ HasProfile(t, u)
                                /\ Has(Profile(t, u), "GSI1PK")
                                /\ Profile(t, u).GSI1PK = parent_gsi1_pk(parent_id)}
        order == SelectInOrder(ids, 1)
    IN  [i \in 1..Len(order) |-> Profile(t, order[i])]

--------------------------------------------------------------------------
(* errors.py: the status code each exception carries *)

\* A handler without its "except FamilyBankError": every exception answers 500.
StatusCode_EveryError500(result) ==
    CASE result = "ok" -> 200
      [] result = "Created" -> 201
      [] OTHER -> 500

StatusCode(result) ==
    CASE result = "ok" -> 200
      [] result = "UnauthorizedError" -> 401
      [] result = "ForbiddenError" -> 403
      [] result = "NotFoundError" -> 404
      [] result = "BadRequestError" -> 400
      [] result = "InsufficientFundsError" -> 400
      [] result = "ConflictError" -> 409
      [] result = "Created" -> 201
      [] OTHER -> 500

--------------------------------------------------------------------------
(* calculate_interest.py *)

Abs(x) == IF x < 0 THEN -x ELSE x

\* A quantize that takes any fraction of a cent up to the next cent (ROUND_UP).
InterestAmount_RoundUp(current_balance, interest_rate) ==
    LET product == current_balance * interest_rate
        cents == (Abs(product) + 999) \div 1000
    IN  (IF product < 0 THEN -cents ELSE cents) * 10

\* A quantize that drops the fraction of a cent (ROUND_DOWN).
InterestAmount_RoundDown(current_balance, interest_rate) ==
    LET product == current_balance * interest_rate
        cents == Abs(product) \div 1000
    IN  (IF product < 0 THEN -cents ELSE cents) * 10

\* (current_balance * interest_rate).quantize(Decimal('0.01'), rounding=ROUND_HALF_UP):
\* balance in thousandths times rate in hundredths is a count of 1/100000;
\* the result is whole cents, halves rounded away from zero, in thousandths.
InterestAmount(current_balance, interest_rate) ==
    LET product == current_balance * interest_rate
        cents == (Abs(product) + 500) \div 1000
    IN  (IF product < 0 THEN -cents ELSE cents) * 10

--------------------------------------------------------------------------
(* History kept beside the program's state *)

\* A write of user_id's balance by someone other than p: a call that waits to
\* write and already lost to a rival is no longer alone with that rival.
Disturb(l, p, user_id) ==
    [q \in DOMAIN l |->
        IF q # p /\ pc[q] = "adj_write" /\ l[q].user = user_id /\ l[q].rival # "none"
        THEN [l[q] EXCEPT !.rival = "disturbed"] ELSE l[q]]

\* p commits: every other call on the same account that read the same balance
\* and has not written yet now has p as the rival that committed first.
MarkRivals(l, p) ==
    [q \in DOMAIN l |->
        IF q # p /\ pc[q] = "adj_write" /\ l[q].user = l[p].user
        THEN IF l[q].rival = "none"
             THEN IF l[q].cur = l[p].cur
                  THEN [l[q] EXCEPT !.rival = "clean", !.rivalAmount = l[p].amount]
                  ELSE l[q]
             ELSE [l[q] EXCEPT !.rival = "disturbed"]
        ELSE l[q]]

\* p commits on user_id while a run of the job is under way: the account has
\* had an adjustment that is not the job's since the job's scan.
Touch(j, p, user_id) ==
    IF p # "job" /\ pc["job"] \in {"job_loop", "adj_read", "adj_write"} THEN [j EXCEPT !.touched = @ \cup {user_id}] ELSE j

--------------------------------------------------------------------------
(* The store's methods called directly *)

\* DynamoDBClient.create_user_profile(user_id, ..., role, parent_id, balance)
CreateUserProfileBy(user_id, role, parent_id, balance) ==
    \E timestamp \in Timestamps :
        /\ now' = timestamp
        /\ \/ /\ table' = create_user_profile(table, user_id, "e1", "Ann", role, parent_id,
                                              balance, DEFAULT_INTEREST_RATE, timestamp)
              /\ created' = (user_id :> balance) @@ created
              /\ overwritten' = IF HasProfile(table, user_id)
                                THEN overwritten \cup {user_id} ELSE overwritten
              /\ loc' = Disturb(loc, None, user_id)
              /\ last' = "ok"
           \/ \* put_item raises ClientError
              /\ last' = "DatabaseError"
              /\ UNCHANGED <<table, created, overwritten, loc>>
        /\ UNCHANGED <<nextTx, cognito, subs, pc, job, returned, writes>>

CreateUserProfile(user_id) ==
    \E ra \in StoreRoleArgs, balance \in StoreBalances :
        CreateUserProfileBy(user_id, ra[1], ra[2], balance)

\* DynamoDBClient.update_user_profile(user_id, name, interest_rate)
UpdateUserProfileBy(user_id, name, interest_rate) ==
    \E timestamp \in Timestamps :
        /\ now' = timestamp
        /\ \/ /\ table' = update_user_profile(table, user_id, name, interest_rate, timestamp)
              /\ last' = "ok"
           \/ \* update_item raises ClientError
              /\ last' = "DatabaseError"
              /\ UNCHANGED table
        /\ UNCHANGED <<nextTx, cognito, subs, pc, loc, job, created, overwritten,
                       returned, writes>>

UpdateUserProfile(user_id) ==
    \E ua \in StoreUpdateArgs : UpdateUserProfileBy(user_id, ua[1], ua[2])

--------------------------------------------------------------------------
(* adjust_balance_with_transaction, one store call per step *)

\* A loop whose except blocks count nothing.
Return_FailureUncounted(p, result, j) ==
    IF loc[p].via = "job"
    THEN /\ pc' = [pc EXCEPT ![p] = "job_loop"]
         /\ job' = IF result = "ok" THEN [j EXCEPT !.successful = @ + 1] ELSE j
         /\ UNCHANGED last
    ELSE /\ pc' = [pc EXCEPT ![p] = IF loc[p].via = "handler" THEN "respond" ELSE "idle"]
         /\ job' = j
         /\ last' = result

\* A call that goes back to its read when the conditional write has failed.
Return_RetryOnConflict(p, result, j) ==
    IF result = "ConflictError"
    THEN /\ pc' = [pc EXCEPT ![p] = "adj_read"]
         /\ job' = j
         /\ UNCHANGED last
    ELSE /\ pc' = [pc EXCEPT ![p] = "idle"]
         /\ job' = j
         /\ last' = result

\* The call ends with `result`: back in the job's loop (lines 104-134 of
\* calculate_interest.py), in the handler's response (lines 101-133 of
\* adjust_balance.py), or at the direct caller.
Return(p, result, j) ==
    IF loc[p].via = "job"
    THEN /\ pc' = [pc EXCEPT ![p] = "job_loop"]
         /\ job' = IF result = "ok" THEN [j EXCEPT !.successful = @ + 1]
                                    ELSE [j EXCEPT !.failed = @ + 1]
         /\ UNCHANGED last
    ELSE /\ pc' = [pc EXCEPT ![p] = IF loc[p].via = "handler" THEN "respond" ELSE "idle"]
         /\ job' = j
         /\ last' = result

\* Lines 275-276: the timestamp and the transaction id, taken before the read.
AdjustStart(p) ==
    /\ pc[p] = "idle"
    /\ (p = "r1" \/ pc["r1"] # "idle")
    /\ nextTx < MaxCalls
    /\ \E user_id \in StoreUsers, amount \in StoreAmounts, timestamp \in Timestamps :
        /\ now' = timestamp
        /\ loc' = [loc EXCEPT ![p] = [Idle EXCEPT !.via = "store", !.user = user_id,
                                        !.amount = amount, !.ttype = "deposit", !.by = "p1",
                                        !.ts = timestamp, !.txid = nextTx + 1]]
    /\ nextTx' = nextTx + 1
    /\ pc' = [pc EXCEPT ![p] = "adj_read"]
    /\ UNCHANGED <<table, cognito, subs, job, last, created, overwritten, returned, writes>>

\* Lines 279-292: the read of the profile, the new balance, the funds check.
AdjustRead(p) ==
    /\ pc[p] = "adj_read"
    /\ LET user_profile == get_user_profile(table, loc[p].user)
           current_balance == CurrentBalance(user_profile)
           new_balance == NewBalance(current_balance, loc[p].amount)
       IN  \/ \* get_item raises ClientError
              /\ Return(p, "DatabaseError", job)
              /\ loc' = [loc EXCEPT ![p] = Idle]
           \/ /\ Missing(user_profile)
              /\ Return(p, "NotFoundError", job)
              /\ loc' = [loc EXCEPT ![p] = Idle]
           \/ /\ ~Missing(user_profile)
              /\ InsufficientFunds(new_balance)
              /\ Return(p, "InsufficientFundsError", job)
              /\ loc' = [loc EXCEPT ![p] = Idle]
           \/ /\ ~Missing(user_profile)
              /\ ~InsufficientFunds(new_balance)
              /\ pc' = [pc EXCEPT ![p] = "adj_write"]
              /\ loc' = [loc EXCEPT ![p].cur = current_balance, ![p].new = new_balance]
              /\ UNCHANGED <<job, last>>
    /\ UNCHANGED <<table, now, nextTx, cognito, subs, created, overwritten, returned, writes>>

\* Lines 294-380: the transactional write and what its outcome raises or returns.
AdjustWrite(p) ==
    /\ pc[p] = "adj_write"
    /\ \/ /\ ConditionHolds(table, loc[p].user, loc[p].cur)
          /\ table' = TransactWrite(table, loc[p])
          /\ returned' = returned \cup {ReturnedTransaction(loc[p])}
          /\ writes' = (loc[p].txid :>
                          [before |-> CurrentBalance(Profile(table, loc[p].user)),
                           after |-> CurrentBalance(Profile(table', loc[p].user))]) @@ writes
          /\ Return(p, "ok", Touch(job, p, loc[p].user))
          /\ loc' = [MarkRivals(loc, p) EXCEPT ![p] = Idle]
       \/ \* TransactionCanceledException with a ConditionalCheckFailed reason
          /\ ~ConditionHolds(table, loc[p].user, loc[p].cur)
          /\ table' = Cancelled(table, loc[p])
          /\ Return(p, "ConflictError", job)
          /\ loc' = [loc EXCEPT ![p] = Idle]
          /\ UNCHANGED <<returned, writes>>
       \/ \* cancelled for another reason, or ClientError
          /\ table' = Cancelled(table, loc[p])
          /\ Return(p, "DatabaseError", job)
          /\ loc' = [loc EXCEPT ![p] = Idle]
          /\ UNCHANGED <<returned, writes>>
    /\ UNCHANGED <<now, nextTx, cognito, subs, created, overwritten>>

--------------------------------------------------------------------------
(* lambdas/transactions/adjust_balance.py *)

\* The handler returns: `result` is "ok", "Created" or the exception raised,
\* and the response, on its way to the client, carries StatusCode(result).
Respond(p, result) ==
    /\ pc' = [pc EXCEPT ![p] = "respond"]
    /\ loc' = [loc EXCEPT ![p] = Idle]
    /\ last' = result

\* The same for a handler that returns records: the response carries them in
\* its body, to the caller of the request about account user_id.
RespondWith(p, via, caller, user_id, result, body) ==
    /\ pc' = [pc EXCEPT ![p] = "respond"]
    /\ loc' = [loc EXCEPT ![p] = [Idle EXCEPT !.via = via, !.caller = caller,
                                              !.user = user_id, !.body = body]]
    /\ last' = result

\* The response reaches the client (the summary of a run, the scheduler).
Deliver(p) ==
    /\ pc[p] = "respond"
    /\ pc' = [pc EXCEPT ![p] = "idle"]
    /\ loc' = [loc EXCEPT ![p] = Idle]
    /\ last' = None
    /\ UNCHANGED <<table, now, nextTx, cognito, subs, job, created, overwritten,
                   returned, writes>>

\* A token exists for a parent, and for a child once the directory holds it.
HasToken(caller) ==
    \/ caller \in ParentIds
    \/ \E e \in DOMAIN cognito : cognito[e].sub = caller

\* @authorize(required_groups=['Parents']) and lines 55-82: the request is
\* refused, or goes on to read the child's profile.
\* The 'amount' of a request body: absent, a JSON number, or a JSON value that
\* is no number ("abc").
ReqAmountInputs ==
    {[kind |-> "missing", value |-> 0], [kind |-> "text", value |-> 0]}
        \cup {[kind |-> "number", value |-> n] : n \in ReqAmounts}

\* Decimal(str(amount)): the exception it raises, None when it raises none.
\* A string that is no number raises decimal.InvalidOperation, an
\* ArithmeticError.
DecimalRaises(amount) == IF amount.kind = "text" THEN "InvalidOperation" ELSE None

\* Line 70: except (ValueError, TypeError)
CaughtAsBadAmount == {"ValueError", "TypeError"}

AdjustBalanceRequestBy(p, caller, child_id, amount) ==
    /\ pc[p] = "idle"
    /\ HasToken(caller)
    /\ \/ /\ ~IsParent(caller)
          /\ Respond(p, "ForbiddenError")
       \/ /\ IsParent(caller)
          /\ child_id = None
          /\ Respond(p, "BadRequestError")
       \/ /\ IsParent(caller)
          /\ child_id # None
          /\ amount.kind = "missing"
          /\ Respond(p, "BadRequestError")
       \/ /\ IsParent(caller)
          /\ child_id # None
          /\ amount.kind # "missing"
          /\ DecimalRaises(amount) \in CaughtAsBadAmount
          /\ Respond(p, "BadRequestError")
       \/ \* the exception reaches "except Exception" (line 129)
          /\ IsParent(caller)
          /\ child_id # None
          /\ amount.kind # "missing"
          /\ DecimalRaises(amount) \notin CaughtAsBadAmount \cup {None}
          /\ Respond(p, "Exception")
       \/ /\ IsParent(caller)
          /\ child_id # None
          /\ amount.kind = "number"
          /\ amount.value = 0
          /\ Respond(p, "BadRequestError")
       \/ /\ IsParent(caller)
          /\ child_id # None
          /\ amount.kind = "number"
          /\ amount.value # 0
          /\ pc' = [pc EXCEPT ![p] = "ab_get"]
          /\ loc' = [loc EXCEPT ![p] = [Idle EXCEPT !.via = "handler", !.caller = caller,
                                          !.user = child_id, !.amount = amount.value]]
          /\ UNCHANGED last
    /\ UNCHANGED <<table, now, nextTx, cognito, subs, job, created, overwritten,
                   returned, writes>>

AdjustBalanceRequest(p) ==
    \E caller \in Callers, child_id \in ChildIds \cup {None}, amount \in ReqAmountInputs :
        AdjustBalanceRequestBy(p, caller, child_id, amount)

\* An ownership test that lets every caller through.
OwnsChild_Anyone(child, caller) == TRUE

\* Line 89: child.get('parentId') != parent_id
OwnsChild(child, caller) == Get(child, "parentId", None) = caller

\* Lines 84-99: the child's profile is read and checked against the caller;
\* then adjust_balance_with_transaction is entered (its lines 275-276).
AdjustBalanceGet(p) ==
    /\ pc[p] = "ab_get"
    /\ LET child == get_user_profile(table, loc[p].user)
       IN  \/ \* get_item raises ClientError
              /\ Respond(p, "DatabaseError")
              /\ UNCHANGED <<now, nextTx>>
           \/ /\ Missing(child)
              /\ Respond(p, "NotFoundError")
              /\ UNCHANGED <<now, nextTx>>
           \/ /\ ~Missing(child)
              /\ ~OwnsChild(child, loc[p].caller)
              /\ Respond(p, "ForbiddenError")
              /\ UNCHANGED <<now, nextTx>>
           \/ /\ ~Missing(child)
              /\ OwnsChild(child, loc[p].caller)
              /\ nextTx < MaxCalls
              /\ \E timestamp \in Timestamps :
                    /\ now' = timestamp
                    /\ loc' = [loc EXCEPT ![p].ttype = "adjustment", ![p].by = loc[p].caller,
                                          ![p].ts = timestamp, ![p].txid = nextTx + 1]
              /\ nextTx' = nextTx + 1
              /\ pc' = [pc EXCEPT ![p] = "adj_read"]
              /\ UNCHANGED last
    /\ UNCHANGED <<table, cognito, subs, job, created, overwritten, returned, writes>>

--------------------------------------------------------------------------
(* lambdas/auth/update_user.py *)

\* @authorize() and lines 54-83 up to the first store call.
UpdateUserRequestBy(p, caller, target, name, interest_rate) ==
    /\ pc[p] = "idle"
    /\  /\ HasToken(caller)
        /\ \/ /\ name = None /\ interest_rate = NoRate
              /\ Respond(p, "BadRequestError")
           \/ /\ ~(name = None /\ interest_rate = NoRate)
              /\ target # caller
              /\ ~IsParent(caller)
              /\ Respond(p, "ForbiddenError")
           \/ /\ ~(name = None /\ interest_rate = NoRate)
              /\ target # caller
              /\ IsParent(caller)
              /\ pc' = [pc EXCEPT ![p] = "uu_get"]
              /\ loc' = [loc EXCEPT ![p] = [Idle EXCEPT !.via = "handler", !.caller = caller,
                                              !.user = target, !.name = name,
                                              !.rate = interest_rate]]
              /\ UNCHANGED last
           \/ /\ ~(name = None /\ interest_rate = NoRate)
              /\ target = caller
              /\ interest_rate # NoRate
              /\ ~IsParent(caller)
              /\ Respond(p, "ForbiddenError")
           \/ /\ ~(name = None /\ interest_rate = NoRate)
              /\ target = caller
              /\ (interest_rate = NoRate \/ IsParent(caller))
              /\ pc' = [pc EXCEPT ![p] = "uu_update"]
              /\ loc' = [loc EXCEPT ![p] = [Idle EXCEPT !.via = "handler", !.caller = caller,
                                              !.user = target, !.name = name,
                                              !.rate = interest_rate]]
              /\ UNCHANGED last
    /\ UNCHANGED <<table, now, nextTx, cognito, subs, job, created, overwritten,
                   returned, writes>>

UpdateUserRequest(p) ==
    \E caller \in Callers, target \in ReqTargets, ua \in ReqUpdateArgs :
        UpdateUserRequestBy(p, caller, target, ua[1], ua[2])

\* Lines 74-83: the target's profile is read and checked against the caller.
UpdateUserGet(p) ==
    /\ pc[p] = "uu_get"
    /\ LET target_profile == get_user_profile(table, loc[p].user)
       IN  \/ \* get_item raises ClientError
              /\ Respond(p, "DatabaseError")
           \/ /\ Missing(target_profile)
              /\ Respond(p, "BadRequestError")
           \/ /\ ~Missing(target_profile)
              /\ Get(target_profile, "parentId", None) # loc[p].caller
              /\ Respond(p, "ForbiddenError")
           \/ /\ ~Missing(target_profile)
              /\ Get(target_profile, "parentId", None) = loc[p].caller
              /\ pc' = [pc EXCEPT ![p] = "uu_update"]
              /\ UNCHANGED <<loc, last>>
    /\ UNCHANGED <<table, now, nextTx, cognito, subs, job, created, overwritten,
                   returned, writes>>

\* The attributes the response body reads from the updated profile (lines 103-112).
ResponseAttributes == {"userId", "email", "name", "role", "balance", "interestRate", "updatedAt"}

\* Lines 86-113: update_user_profile, then the response built from its result.
UpdateUserUpdate(p) ==
    /\ pc[p] = "uu_update"
    /\ \E timestamp \in Timestamps :
        /\ now' = timestamp
        /\ \/ \* update_item raises ClientError
              /\ Respond(p, "DatabaseError")
              /\ UNCHANGED table
           \/ /\ table' = update_user_profile(table, loc[p].user, loc[p].name, loc[p].rate,
                                              timestamp)
              /\ IF ResponseAttributes \subseteq DOMAIN Profile(table', loc[p].user)
                 THEN Respond(p, "ok")
                 ELSE \* KeyError, caught by "except Exception"
                      Respond(p, "Exception")
    /\ UNCHANGED <<nextTx, cognito, subs, job, created, overwritten, returned, writes>>

--------------------------------------------------------------------------
(* lambdas/transactions/list_transactions.py *)

TRANSACTION_PAGINATION_LIMIT == 50
MAX_TRANSACTION_PAGINATION_LIMIT == 100

\* The 'limit' query parameter: absent, a number, or text that is no number.
ReqLimitInputs ==
    {[kind |-> "missing", value |-> 0], [kind |-> "text", value |-> 0],
     [kind |-> "number", value |-> 1], [kind |-> "number", value |-> 1000]}

\* Lines 53-58: int(query_params.get("limit", 50)), capped at the maximum.
Limit(limit) ==
    LET n == IF limit.kind = "missing" THEN TRANSACTION_PAGINATION_LIMIT ELSE limit.value
    IN  IF n > MAX_TRANSACTION_PAGINATION_LIMIT THEN MAX_TRANSACTION_PAGINATION_LIMIT ELSE n

\* An ownership test that lets every parent through.
ViewsOwnChild_AnyParent(target_profile, current_user_id) == TRUE

\* Line 73: target_profile.get("parentId") != current_user_id
ViewsOwnChild(target_profile, current_user_id) ==
    Get(target_profile, "parentId", None) = current_user_id

\* @authorize() and lines 44-67 up to the first store call.
ListTransactionsRequestBy(p, caller, target, limit) ==
    /\ pc[p] = "idle"
    /\ HasToken(caller)
    /\ \/ \* int() raises ValueError, caught by "except Exception"
          /\ limit.kind = "text"
          /\ RespondWith(p, "list", caller, target, "Exception", <<>>)
       \/ /\ limit.kind # "text"
          /\ target # caller
          /\ ~IsParent(caller)
          /\ RespondWith(p, "list", caller, target, "ForbiddenError", <<>>)
       \/ /\ limit.kind # "text"
          /\ target # caller
          /\ IsParent(caller)
          /\ pc' = [pc EXCEPT ![p] = "lt_get"]
          /\ loc' = [loc EXCEPT ![p] = [Idle EXCEPT !.via = "list", !.caller = caller,
                                          !.user = target, !.amount = Limit(limit)]]
          /\ UNCHANGED last
       \/ /\ limit.kind # "text"
          /\ target = caller
          /\ pc' = [pc EXCEPT ![p] = "lt_query"]
          /\ loc' = [loc EXCEPT ![p] = [Idle EXCEPT !.via = "list", !.caller = caller,
                                          !.user = target, !.amount = Limit(limit)]]
          /\ UNCHANGED last
    /\ UNCHANGED <<table, now, nextTx, cognito, subs, job, created, overwritten,
                   returned, writes>>

\* Lines 69-76: the target's profile is read and checked against the caller.
ListTransactionsGet(p) ==
    /\ pc[p] = "lt_get"
    /\ LET target_profile == get_user_profile(table, loc[p].user)
       IN  \/ \* get_item raises ClientError
              RespondWith(p, "list", loc[p].caller, loc[p].user, "DatabaseError", <<>>)
           \/ /\ Missing(target_profile)
              /\ RespondWith(p, "list", loc[p].caller, loc[p].user, "ForbiddenError", <<>>)
           \/ /\ ~Missing(target_profile)
              /\ ~ViewsOwnChild(target_profile, loc[p].caller)
              /\ RespondWith(p, "list", loc[p].caller, loc[p].user, "ForbiddenError", <<>>)
           \/ /\ ~Missing(target_profile)
              /\ ViewsOwnChild(target_profile, loc[p].caller)
              /\ pc' = [pc EXCEPT ![p] = "lt_query"]
              /\ UNCHANGED <<loc, last>>
    /\ UNCHANGED <<table, now, nextTx, cognito, subs, job, created, overwritten,
                   returned, writes>>

\* Lines 83-119: get_transactions, then the response built from its result.
ListTransactionsQuery(p) ==
    /\ pc[p] = "lt_query"
    /\ \/ \* query raises ClientError
          RespondWith(p, "list", loc[p].caller, loc[p].user, "DatabaseError", <<>>)
       \/ IF QueryRaises(loc[p].user, loc[p].amount, NoStartKey) # None
          THEN \* the client library refuses the Limit: "except Exception"
               RespondWith(p, "list", loc[p].caller, loc[p].user, "Exception", <<>>)
          ELSE RespondWith(p, "list", loc[p].caller, loc[p].user, "ok",
                           get_transactions(table, loc[p].user, loc[p].amount))
    /\ UNCHANGED <<table, now, nextTx, cognito, subs, job, created, overwritten,
                   returned, writes>>

--------------------------------------------------------------------------
(* lambdas/family/get_child_summary.py *)

\* Line 59: child_profile.get("parentId") != parent_id
SummaryOwnChild(child_profile, parent_id) == Get(child_profile, "parentId", None) = parent_id

\* @authorize(required_groups=["Parents"]) and lines 41-48.
ChildSummaryRequestBy(p, caller, child_id) ==
    /\ pc[p] = "idle"
    /\ HasToken(caller)
    /\ \/ /\ ~IsParent(caller)
          /\ RespondWith(p, "summary", caller, child_id, "ForbiddenError", <<>>)
       \/ /\ IsParent(caller)
          /\ child_id = None
          /\ RespondWith(p, "summary", caller, child_id, "NotFoundError", <<>>)
       \/ /\ IsParent(caller)
          /\ child_id # None
          /\ pc' = [pc EXCEPT ![p] = "cs_get"]
          /\ loc' = [loc EXCEPT ![p] = [Idle EXCEPT !.via = "summary", !.caller = caller,
                                          !.user = child_id]]
          /\ UNCHANGED last
    /\ UNCHANGED <<table, now, nextTx, cognito, subs, job, created, overwritten,
                   returned, writes>>

\* Lines 52-60: the child's profile is read and checked against the caller.
ChildSummaryGet(p) ==
    /\ pc[p] = "cs_get"
    /\ LET child_profile == get_user_profile(table, loc[p].user)
       IN  \/ \* get_item raises ClientError
              RespondWith(p, "summary", loc[p].caller, loc[p].user, "DatabaseError", <<>>)
           \/ /\ Missing(child_profile)
              /\ RespondWith(p, "summary", loc[p].caller, loc[p].user, "NotFoundError", <<>>)
           \/ /\ ~Missing(child_profile)
              /\ ~SummaryOwnChild(child_profile, loc[p].caller)
              /\ RespondWith(p, "summary", loc[p].caller, loc[p].user, "ForbiddenError", <<>>)
           \/ /\ ~Missing(child_profile)
              /\ SummaryOwnChild(child_profile, loc[p].caller)
              /\ pc' = [pc EXCEPT ![p] = "cs_query"]
              /\ UNCHANGED <<loc, last>>
    /\ UNCHANGED <<table, now, nextTx, cognito, subs, job, created, overwritten,
                   returned, writes>>

\* Lines 62-97: get_transactions(child_id, limit=10), then the response.
ChildSummaryQuery(p) ==
    /\ pc[p] = "cs_query"
    /\ \/ \* query raises ClientError
          RespondWith(p, "summary", loc[p].caller, loc[p].user, "DatabaseError", <<>>)
       \/ RespondWith(p, "summary", loc[p].caller, loc[p].user, "ok",
                      get_transactions(table, loc[p].user, 10))
    /\ UNCHANGED <<table, now, nextTx, cognito, subs, job, created, overwritten,
                   returned, writes>>

--------------------------------------------------------------------------
(* lambdas/family/create_child.py *)

\* @authorize(required_groups=['Parents']) and lines 55-111: the body is
\* parsed, the user is created in the directory and put in the Children group.
CreateChildRequestBy(p, caller, email, initial_balance, interest_rate) ==
    /\ pc[p] = "idle"
    /\  /\ HasToken(caller)
        /\ \/ /\ ~IsParent(caller)
              /\ Respond(p, "ForbiddenError")
              /\ UNCHANGED <<cognito, subs>>
           \/ \* admin_create_user raises UsernameExistsException
              /\ IsParent(caller)
              /\ email \in DOMAIN cognito
              /\ Respond(p, "BadRequestError")
              /\ UNCHANGED <<cognito, subs>>
           \/ \* admin_create_user fails otherwise
              /\ IsParent(caller)
              /\ email \notin DOMAIN cognito
              /\ Respond(p, "Exception")
              /\ UNCHANGED <<cognito, subs>>
           \/ \* the user is created; admin_add_user_to_group fails
              /\ IsParent(caller)
              /\ email \notin DOMAIN cognito
              /\ subs < Len(ChildSubs)
              /\ cognito' = (email :> [sub |-> ChildSubs[subs + 1], group |-> None]) @@ cognito
              /\ subs' = subs + 1
              /\ Respond(p, "Exception")
           \/ \* both succeed
              /\ IsParent(caller)
              /\ email \notin DOMAIN cognito
              /\ subs < Len(ChildSubs)
              /\ cognito' = (email :> [sub |-> ChildSubs[subs + 1], group |-> "Children"])
                                @@ cognito
              /\ subs' = subs + 1
              /\ pc' = [pc EXCEPT ![p] = "cc_put"]
              /\ loc' = [loc EXCEPT ![p] = [Idle EXCEPT !.via = "handler", !.caller = caller,
                                              !.user = ChildSubs[subs + 1], !.email = email,
                                              !.new = initial_balance,
                                              !.rate = interest_rate]]
              /\ UNCHANGED last
    /\ UNCHANGED <<table, now, nextTx, job, created, overwritten, returned, writes>>

CreateChildRequest(p) ==
    \E caller \in ChildCreators, email \in Emails, initial_balance \in ReqInitialBalances,
       interest_rate \in ReqRates :
        CreateChildRequestBy(p, caller, email, initial_balance, interest_rate)

\* admin_delete_user(Username=email)
DeleteUser(directory, email) == [e \in DOMAIN directory \ {email} |-> directory[e]]

\* Lines 113-152: the profile is put; if that fails the directory user is
\* deleted, unless the deletion fails too.
CreateChildPut(p) ==
    /\ pc[p] = "cc_put"
    /\ \E timestamp \in Timestamps :
        /\ now' = timestamp
        /\ \/ /\ table' = create_user_profile(table, loc[p].user, loc[p].email, "Ann", "child",
                                              loc[p].caller, loc[p].new, loc[p].rate,
                                              timestamp)
              /\ created' = (loc[p].user :> loc[p].new) @@ created
              /\ overwritten' = IF HasProfile(table, loc[p].user)
                                THEN overwritten \cup {loc[p].user} ELSE overwritten
              /\ Respond(p, "Created")
              /\ UNCHANGED cognito
           \/ \* put_item raises ClientError; the clean-up succeeds
              /\ cognito' = DeleteUser(cognito, loc[p].email)
              /\ Respond(p, "DatabaseError")
              /\ UNCHANGED <<table, created, overwritten>>
           \/ \* put_item raises ClientError; admin_delete_user raises too
              /\ Respond(p, "DatabaseError")
              /\ UNCHANGED <<table, cognito, created, overwritten>>
    /\ UNCHANGED <<nextTx, subs, job, returned, writes>>

--------------------------------------------------------------------------
(* lambdas/interest/calculate_interest.py *)

\* Lines 47-55: the scan and the counters; line 158: a scan that fails ends the run.
JobScan ==
    /\ pc["job"] = "idle"
    /\ \/ /\ job' = [NoRun EXCEPT !.children = scan_all_children(table),
                                  !.totalChildren = Len(scan_all_children(table)),
                                  !.base = AllTransactionKeys(table)]
          /\ pc' = [pc EXCEPT !["job"] = "job_loop"]
          /\ UNCHANGED last
       \/ \* scan_all_children raises DatabaseError
          /\ last' = "DatabaseError"
          /\ pc' = [pc EXCEPT !["job"] = "respond"]
          /\ UNCHANGED job
    /\ UNCHANGED <<table, now, nextTx, cognito, subs, loc, created, overwritten,
                   returned, writes>>

\* Lines 57-102, for the next child of the scan: skipped, or
\* adjust_balance_with_transaction is entered with the interest as the amount.
JobChild ==
    /\ pc["job"] = "job_loop"
    /\ job.children # <<>>
    /\ LET child == Head(job.children)
           current_balance == Get(child, "balance", 0)
           interest_rate == Get(child, "interestRate", 0)
           interest_amount == InterestAmount(current_balance, interest_rate)
       IN  IF interest_rate = 0 \/ current_balance = 0 \/ interest_amount = 0
           THEN /\ job' = [job EXCEPT !.children = Tail(@), !.skipped = @ + 1]
                /\ UNCHANGED <<now, nextTx, pc, loc>>
           ELSE /\ nextTx < MaxCalls
                /\ \E timestamp \in Timestamps :
                    /\ now' = timestamp
                    /\ loc' = [loc EXCEPT !["job"] =
                                 [Idle EXCEPT !.via = "job", !.user = child.userId,
                                              !.amount = interest_amount,
                                              !.ttype = "interest", !.by = "SYSTEM",
                                              !.rate = interest_rate,
                                              !.ts = timestamp, !.txid = nextTx + 1]]
                /\ nextTx' = nextTx + 1
                /\ job' = [job EXCEPT !.children = Tail(@), !.scanned = current_balance]
                /\ pc' = [pc EXCEPT !["job"] = "adj_read"]
    /\ UNCHANGED <<table, cognito, subs, last, created, overwritten, returned, writes>>

\* Lines 136-156: every child has been handled; the summary is returned.
JobFinish ==
    /\ pc["job"] = "job_loop"
    /\ job.children = <<>>
    /\ pc' = [pc EXCEPT !["job"] = "respond"]
    /\ job' = NoRun
    /\ last' = "ok"
    /\ UNCHANGED <<table, now, nextTx, cognito, subs, loc, created, overwritten,
                   returned, writes>>

--------------------------------------------------------------------------
(* The library: the store's methods called with any arguments, side by side *)

Next ==
    \/ \E user_id \in StoreUsers : CreateUserProfile(user_id)
    \/ \E user_id \in StoreUsers : UpdateUserProfile(user_id)
    \/ \E p \in Clients : AdjustStart(p)
    \/ \E p \in Clients : AdjustRead(p)
    \/ \E p \in Clients : AdjustWrite(p)

Spec == Init /\ [][Next]_vars

(* The application: requests to the handlers and runs of the job, side by side *)

Requesters == {"r1"}

NextApp ==
    \/ \E p \in Requesters : CreateChildRequest(p)
    \/ \E p \in Requesters : CreateChildPut(p)
    \/ \E p \in Requesters : UpdateUserRequest(p)
    \/ \E p \in Requesters : UpdateUserGet(p)
    \/ \E p \in Requesters : UpdateUserUpdate(p)
    \/ \E p \in Requesters : AdjustBalanceRequest(p)
    \/ \E p \in Requesters : AdjustBalanceGet(p)
    \/ \E p \in Procs : AdjustRead(p)
    \/ \E p \in Procs : AdjustWrite(p)
    \/ JobScan
    \/ JobChild
    \/ JobFinish
    \/ \E p \in Requesters \cup {"job"} : Deliver(p)

SpecApp == Init /\ [][NextApp]_vars

(* The profiles: create_user_profile and update_user_profile called with any
   role, parent, name and rate on two users, the second of which already has a
   row and a deposit *)

ProfileUsers == {"c1", "c2"}
ProfileRoleArgs == {<<"child", "p1">>, <<"child", None>>, <<"parent", None>>, <<"parent", "p1">>}
ProfileUpdateArgs == {<<"Bob", NoRate>>, <<None, 7>>, <<"Bob", 7>>, <<None, NoRate>>}

CreateUserProfileAny(user_id) ==
    \E ra \in ProfileRoleArgs, balance \in StoreBalances :
        CreateUserProfileBy(user_id, ra[1], ra[2], balance)

UpdateUserProfileAny(user_id) ==
    \E ua \in ProfileUpdateArgs : UpdateUserProfileBy(user_id, ua[1], ua[2])

\* The deposit of 10.00 that c2 has received.
FirstDeposit ==
    [Idle EXCEPT !.via = "store", !.user = "c2", !.amount = 10000, !.ttype = "deposit",
                 !.by = "p1", !.ts = 0, !.txid = 1, !.cur = 0, !.new = 10000]

InitProfiles ==
    /\ table = TransactWrite(create_user_profile(<<>>, "c2", "e2", "Ben", "child", "p1", 0,
                                                 DEFAULT_INTEREST_RATE, 0),
                             FirstDeposit)
    /\ now = 0
    /\ nextTx = 1
    /\ cognito = <<>>
    /\ subs = 0
    /\ pc = [p \in Procs |-> "idle"]
    /\ loc = [p \in Procs |-> Idle]
    /\ job = NoRun
    /\ last = None
    /\ created = ("c2" :> 0)
    /\ overwritten = {}
    /\ returned = {ReturnedTransaction(FirstDeposit)}
    /\ writes = (1 :> [before |-> 0, after |-> 10000])

NextProfiles ==
    \/ \E user_id \in ProfileUsers : CreateUserProfileAny(user_id)
    \/ \E user_id \in ProfileUsers : UpdateUserProfileAny(user_id)

SpecProfiles == InitProfiles /\ [][NextProfiles]_vars

(* The updates: update_user_profile called with any name and rate on two
   users; the first has no row or a row create_user_profile has put for any
   role and parent, the second has its row and its deposit *)

InitUpdates ==
    /\ \E ra \in ProfileRoleArgs, present \in BOOLEAN :
          LET base == TransactWrite(create_user_profile(<<>>, "c2", "e2", "Ben", "child",
                                                        "p1", 0, DEFAULT_INTEREST_RATE, 0),
                                    FirstDeposit)
          IN  /\ table = IF present
                         THEN create_user_profile(base, "c1", "e1", "Ann", ra[1], ra[2],
                                                  10000, DEFAULT_INTEREST_RATE, 0)
                         ELSE base
              /\ created = IF present THEN ("c1" :> 10000) @@ ("c2" :> 0) ELSE ("c2" :> 0)
    /\ now = 0
    /\ nextTx = 1
    /\ cognito = <<>>
    /\ subs = 0
    /\ pc = [p \in Procs |-> "idle"]
    /\ loc = [p \in Procs |-> Idle]
    /\ job = NoRun
    /\ last = None
    /\ overwritten = {}
    /\ returned = {ReturnedTransaction(FirstDeposit)}
    /\ writes = (1 :> [before |-> 0, after |-> 10000])

NextUpdates == \E user_id \in ProfileUsers : UpdateUserProfileAny(user_id)

SpecUpdates == InitUpdates /\ [][NextUpdates]_vars

(* common/auth.py: the authorize decorator around any handler *)

\* Tokens: an ID token of the user pool, unexpired and rightly signed, or one
\* that verify_jwt refuses (an access token, an expired or a forged one);
\* each carries a sub and the groups it claims.
JwtKinds == {"id", "access", "expired", "forged"}
JwtGroups == {{}, {"Parents"}, {"Children"}}
Jwts == [kind : JwtKinds, sub : {"p1", "c1"}, groups : JwtGroups]
NoJwt == [kind |-> "none", sub |-> None, groups |-> {}]

\* event["headers"]: null, or a dict with no Authorization header, or with
\* one under either spelling, holding a scheme and a token.
NoHeaders == [kind |-> "null", name |-> None, scheme |-> None, token |-> NoJwt]
EventHeaders ==
    {NoHeaders, [kind |-> "dict", name |-> None, scheme |-> None, token |-> NoJwt]}
        \cup [kind : {"dict"}, name : {"Authorization", "authorization"},
              scheme : {"Bearer ", "Basic "}, token : Jwts]

\* event["requestContext"]["authorizer"] as the request brings it: absent, or
\* naming a user and groups of the sender's choice.
NoAuthorizer == <<>>
EventAuthorizers == {NoAuthorizer, [userId |-> "p1", groups |-> {"Parents"}]}

Events == [headers : EventHeaders, authorizer : EventAuthorizers]

\* required_groups of the decorator: None, or ['Parents'].
RequiredGroups == {{}, {"Parents"}}

\* Lines 100-128: verify_jwt raises UnauthorizedError unless the token is a
\* valid ID token.
VerifyRaises(token) == token.kind # "id"

\* Lines 230-231: "if required_groups" and "any(group in groups ...)".
GroupsAllowed(required_groups, groups) ==
    required_groups = {} \/ (required_groups \cap groups) # {}

\* Lines 208-262: the wrapper up to the call of the handler, or to the
\* response it returns in the handler's place.
AuthorizeBy(p, event, required_groups) ==
    /\ pc[p] = "idle"
    /\ LET headers == event.headers
           refused(status) ==
               /\ pc' = [pc EXCEPT ![p] = "au_refused"]
               /\ last' = status
               /\ loc' = [loc EXCEPT ![p] = [Idle EXCEPT !.via = "auth", !.event = event,
                                                         !.required = required_groups]]
       IN  IF headers.kind = "null"
           THEN \* None.get raises AttributeError: "except Exception"
                refused("Exception")
           ELSE IF headers.name = None \/ headers.scheme # "Bearer "
           THEN refused("UnauthorizedError")
           ELSE IF VerifyRaises(headers.token)
           THEN refused("UnauthorizedError")
           ELSE IF ~GroupsAllowed(required_groups, headers.token.groups)
           THEN refused("ForbiddenError")
           ELSE /\ pc' = [pc EXCEPT ![p] = "au_handler"]
                /\ last' = "ok"
                /\ loc' = [loc EXCEPT ![p] =
                              [Idle EXCEPT !.via = "auth",
                                           !.caller = headers.token.sub,
                                           !.event = [event EXCEPT !.authorizer =
                                                        [userId |-> headers.token.sub,
                                                         groups |-> headers.token.groups]],
                                           !.required = required_groups]]
    /\ UNCHANGED <<table, now, nextTx, cognito, subs, job, created, overwritten,
                   returned, writes>>

Authorize(p) ==
    \E event \in Events, required_groups \in RequiredGroups :
        AuthorizeBy(p, event, required_groups)

\* Line 248 or lines 250-272: the handler's response, or the wrapper's, is returned.
AuthorizeReturn(p) ==
    /\ pc[p] \in {"au_handler", "au_refused"}
    /\ pc' = [pc EXCEPT ![p] = "idle"]
    /\ loc' = [loc EXCEPT ![p] = Idle]
    /\ last' = None
    /\ UNCHANGED <<table, now, nextTx, cognito, subs, job, created, overwritten,
                   returned, writes>>

NextAuth ==
    \/ Authorize("r1")
    \/ AuthorizeReturn("r1")

SpecAuth == Init /\ [][NextAuth]_vars

(* The lookups: get_user_profile called directly, beside the calls that
   create and update the profile *)

GetUsers == {"c1", "c2"}

\* dynamodb.py lines 48-65: one call get_user_profile(user_id) by p; the item
\* or the absent result is returned (kept in loc[p].page), or get_item raises
\* ClientError and DatabaseError is raised.
GetUserProfileBy(p, user_id) ==
    /\ pc[p] = "idle"
    /\ \/ /\ last' = "ok"
          /\ loc' = [loc EXCEPT ![p] = [Idle EXCEPT !.via = "get", !.user = user_id,
                                                   !.page = get_user_profile(table, user_id)]]
       \/ /\ last' = "DatabaseError"
          /\ loc' = [loc EXCEPT ![p] = [Idle EXCEPT !.via = "get", !.user = user_id]]
    /\ UNCHANGED <<table, now, nextTx, cognito, subs, pc, job, created, overwritten,
                   returned, writes>>

GetUserProfile(p) == \E user_id \in GetUsers : GetUserProfileBy(p, user_id)

NextGet ==
    \/ \E user_id \in StoreUsers : CreateUserProfile(user_id)
    \/ \E user_id \in StoreUsers : UpdateUserProfile(user_id)
    \/ \E p \in Requesters : GetUserProfile(p)

SpecGet == Init /\ [][NextGet]_vars

(* common/auth.py: get_jwks and the key set a process caches; loc[p] holds the
   module globals _jwks_cache and _jwks_cache_time of process p, `now` is
   time.time() in seconds *)

JWKS_CACHE_DURATION == 3600

\* Key sets the user pool's JWKS endpoint serves, and a fetch that fails
\* (requests.get, raise_for_status or response.json() raises).
KeySets == {"keys1", "keys2", "keys3"}
FetchFailed == "failed"
FetchResponses == KeySets \cup {FetchFailed}

\* Seconds the clock may have moved on between two calls, and its last reading.
ClockSteps == {0, 1800, JWKS_CACHE_DURATION - 1, JWKS_CACHE_DURATION}
MaxTime == (MaxClock + 2) * JWKS_CACHE_DURATION

\* A cache that never expires.
CacheValid_NeverExpires(cache, cache_time, current_time) == cache # None

\* Line 36: _jwks_cache and (current_time - _jwks_cache_time) < JWKS_CACHE_DURATION
CacheValid(cache, cache_time, current_time) ==
    cache # None /\ (current_time - cache_time) < JWKS_CACHE_DURATION

\* One call of get_jwks in process p at clock reading current_time, the fetch,
\* if one is made, being answered by `response`. loc[p].page is the value
\* returned and loc[p].fetch tells whether requests.get was called.
GetJwksBy(p, current_time, response) ==
    /\ pc[p] = "idle"
    /\ now' = current_time
    /\ LET cache == loc[p].jwks_cache
           ends(result, value, fetch, new_cache, new_time) ==
               /\ last' = result
               /\ loc' = [loc EXCEPT ![p].page = value, ![p].fetch = fetch,
                                     ![p].jwks_cache = new_cache,
                                     ![p].jwks_cache_time = new_time]
       IN  IF CacheValid(cache, loc[p].jwks_cache_time, current_time)
           THEN ends("ok", cache, "none", cache, loc[p].jwks_cache_time)
           ELSE IF response # FetchFailed
           THEN ends("ok", response, "ok", response, current_time)
           ELSE IF cache # None
           THEN ends("ok", cache, "failed", cache, loc[p].jwks_cache_time)
           ELSE ends("UnauthorizedError", None, "failed", cache, loc[p].jwks_cache_time)
    /\ UNCHANGED <<table, nextTx, cognito, subs, pc, job, created, overwritten,
                   returned, writes>>

GetJwks(p) ==
    \E step \in ClockSteps, response \in FetchResponses :
        /\ now + step <= MaxTime
        /\ GetJwksBy(p, now + step, response)

NextJwks == GetJwks("r1")

SpecJwks == Init /\ [][NextJwks]_vars

(* The scan: scan_all_children page by page, by the role index or by the
   filtered scan of the table, on a store that is not written to *)

\* Items the store evaluates for one page before it stops.
ScanPageSizes == 1..(MaxCalls + 1)

Reverse(seq) == [i \in 1..Len(seq) |-> seq[Len(seq) + 1 - i]]

\* The keys of the table in the order a scan reads them: account by account,
\* the profile (SK PROFILE) before the records (SK TRANS#...) in ascending order.
RECURSIVE TableKeysFrom(_, _)
TableKeysFrom(t, i) ==
    IF i > Len(UserOrder) THEN <<>>
    ELSE (IF HasProfile(t, UserOrder[i]) THEN <<ProfileKey(UserOrder[i])>> ELSE <<>>)
           \o Reverse(KeysNewestFirst(TransactionKeys(t, UserOrder[i])))
           \o TableKeysFrom(t, i + 1)

\* Lines 396-402: the keys of the items in GSI2 under GSI2PK = ROLE#child, in
\* ascending GSI2SK order.
RoleIndexKeys(t) ==
    LET ids == {u \in UserIds : /\ HasProfile(t, u)
                                /\ Has(Profile(t, u), "GSI2PK")
                                /\ Profile(t, u).GSI2PK = role_gsi2_pk("child")}
        order == SelectInOrder(ids, 1)
    IN  [i \in 1..Len(order) |-> ProfileKey(order[i])]

\* Lines 417-424: FilterExpression "#role = :role AND SK = :sk".
FilterExpression(t, k) == Get(t[k], "role", None) = "child" /\ k[2] = profile_sk

\* A reading that starts again at the start key instead of after it.
KeysAfter_FromStartKey(order, start) ==
    IF Missing(start) THEN order
    ELSE LET at == CHOOSE i \in 1..Len(order) : KeyDict(order[i]) = start
         IN  SubSeq(order, at, Len(order))

\* ExclusiveStartKey: the keys the store has still to read, those after the
\* start key.
KeysAfter(order, start) ==
    IF Missing(start) THEN order
    ELSE LET at == CHOOSE i \in 1..Len(order) : KeyDict(order[i]) = start
         IN  SubSeq(order, at + 1, Len(order))

InitScan ==
    /\ \E ra1 \in ProfileRoleArgs, ra2 \in ProfileRoleArgs, c1_present \in BOOLEAN,
          p1_present \in BOOLEAN :
          LET t0 == IF p1_present
                    THEN create_user_profile(<<>>, "p1", "ep1", "Pat", "parent", None,
                                             0, DEFAULT_INTEREST_RATE, 0)
                    ELSE <<>>
              t1 == TransactWrite(create_user_profile(t0, "c2", "e2", "Ben", ra2[1], ra2[2],
                                                      0, DEFAULT_INTEREST_RATE, 0),
                                  FirstDeposit)
          IN  /\ table = IF c1_present
                         THEN create_user_profile(t1, "c1", "e1", "Ann", ra1[1], ra1[2],
                                                  10000, DEFAULT_INTEREST_RATE, 0)
                         ELSE t1
              /\ created = IF c1_present THEN ("c1" :> 10000) @@ ("c2" :> 0) ELSE ("c2" :> 0)
    /\ now = 0
    /\ nextTx = 1
    /\ cognito = <<>>
    /\ subs = 0
    /\ pc = [p \in Procs |-> "idle"]
    /\ loc = [p \in Procs |-> Idle]
    /\ job = NoRun
    /\ last = None
    /\ overwritten = {}
    /\ returned = {ReturnedTransaction(FirstDeposit)}
    /\ writes = (1 :> [before |-> 0, after |-> 10000])

\* Lines 390-402 and 414-425: USE_ROLE_GSI is read and the parameters of the
\* first query or scan are built, with no ExclusiveStartKey.
ScanStart(p) ==
    /\ pc[p] = "idle"
    /\ \E use_gsi \in BOOLEAN, page_size \in ScanPageSizes :
          loc' = [loc EXCEPT ![p] = [Idle EXCEPT !.via = IF use_gsi THEN "scan_gsi"
                                                        ELSE "scan_filter",
                                                !.amount = page_size,
                                                !.start = NoStartKey]]
    /\ pc' = [pc EXCEPT ![p] = "sc_loop"]
    /\ UNCHANGED <<table, now, nextTx, cognito, subs, job, last, created, overwritten,
                   returned, writes>>

\* One turn of "while True" (lines 404-410, 427-433): the store reads up to a
\* page of items after the start key and returns those that match, with a
\* LastEvaluatedKey when it stopped before the end; the items are added and
\* the loop goes on from that key or breaks. The call may raise ClientError.
ScanPage(p) ==
    /\ pc[p] = "sc_loop"
    /\ LET use_gsi == loc[p].via = "scan_gsi"
           rest == KeysAfter(IF use_gsi THEN RoleIndexKeys(table) ELSE TableKeysFrom(table, 1),
                             loc[p].start)
           n == IF Len(rest) < loc[p].amount THEN Len(rest) ELSE loc[p].amount
           read == SubSeq(rest, 1, n)
           items == SelectSeq(read, LAMBDA k : use_gsi \/ FilterExpression(table, k))
       IN  \/ /\ last' = "DatabaseError"
              /\ pc' = [pc EXCEPT ![p] = "sc_failed"]
              /\ UNCHANGED loc
           \/ \E more \in BOOLEAN :
                 \* a LastEvaluatedKey comes while items are left, and may come
                 \* with a full page that happens to end the table
                 /\ n < Len(rest) => more
                 /\ more => n = loc[p].amount
                 /\ last' = "ok"
                 /\ loc' = [loc EXCEPT ![p].body = @ \o [i \in 1..Len(items) |-> table[items[i]]],
                                       ![p].start = IF more THEN KeyDict(read[n]) ELSE NoStartKey]
                 /\ pc' = [pc EXCEPT ![p] = IF more THEN "sc_loop" ELSE "sc_done"]
    /\ UNCHANGED <<table, now, nextTx, cognito, subs, job, created, overwritten,
                   returned, writes>>

\* Lines 412, 435 and 437-439: the items are returned, or DatabaseError is raised.
ScanEnd(p) ==
    /\ pc[p] \in {"sc_done", "sc_failed"}
    /\ pc' = [pc EXCEPT ![p] = "idle"]
    /\ loc' = [loc EXCEPT ![p] = Idle]
    /\ last' = None
    /\ UNCHANGED <<table, now, nextTx, cognito, subs, job, created, overwritten,
                   returned, writes>>

NextScan ==
    \/ ScanStart("r1")
    \/ ScanPage("r1")
    \/ ScanEnd("r1")

\* A call of query or scan that has been made returns.
SpecScan == InitScan /\ [][NextScan]_vars /\ WF_vars(ScanPage("r1"))

(* The sort keys as text: the timestamp adjust_balance_with_transaction takes
   (datetime.utcnow().isoformat() + "Z") and the key transaction_sk makes of
   it, character by character; a text is the sequence of its character codes *)

\* Instants of the clock: a second of the minute and a microsecond in it.
KeySeconds == {0, 1, 59}
KeyMicroseconds == {0, 1, 500000, 999999}
Instants == [second : KeySeconds, microsecond : KeyMicroseconds]

\* str(uuid.uuid4()), cut to its first two characters: "0a", "f3".
KeyIds == {<<48, 97>>, <<102, 51>>}

\* The decimal digits of n, zero-padded to the given width.
RECURSIVE Digits(_, _)
Digits(n, width) ==
    IF width = 0 THEN <<>> ELSE Append(Digits(n \div 10, width - 1), 48 + (n % 10))

\* datetime.isoformat() of an instant of 2024-01-01T00:00: the seconds in two
\* digits, then "." and the microseconds in six digits unless they are 0.
isoformat(instant) ==
    <<50, 48, 50, 52, 45, 48, 49, 45, 48, 49, 84, 48, 48, 58, 48, 48, 58>>
        \o Digits(instant.second, 2)
        \o (IF instant.microsecond = 0 THEN <<>>
            ELSE <<46>> \o Digits(instant.microsecond, 6))

\* dynamodb.py line 275: datetime.utcnow().isoformat() + "Z"
TimestampText(instant) == isoformat(instant) \o <<90>>

\* models.py line 48: f"TRANS#{timestamp}#{transaction_id}"
transaction_sk_text(timestamp, transaction_id) ==
    <<84, 82, 65, 78, 83, 35>> \o timestamp \o <<35>> \o transaction_id

\* Lines 275-276 and the key of the record: a call reads the clock, draws an
\* id and makes the sort key of its record; the keys made are kept with the
\* instant they were made at.
MakeSortKey(p) ==
    /\ Len(loc[p].body) < MaxCalls
    /\ \E instant \in Instants, transaction_id \in KeyIds :
          loc' = [loc EXCEPT ![p].body =
                     Append(@, [at |-> instant,
                                sk |-> transaction_sk_text(TimestampText(instant),
                                                           transaction_id)])]
    /\ UNCHANGED <<table, now, nextTx, cognito, subs, pc, job, last, created, overwritten,
                   returned, writes>>

NextKeys == MakeSortKey("r1")

SpecKeys == Init /\ [][NextKeys]_vars

(* The pages: get_transactions called on a store that is not written to and
   answers every query it accepts; a client starts with any token and then
   follows the nextToken of each page until a page comes without one *)

\* Number of records the first account holds at most.
MaxRecords == MaxCalls + 1
PageLimits == {0, 1, 2, TRANSACTION_PAGINATION_LIMIT}

\* Tokens no call of get_transactions has produced.
ForeignTokens ==
    {NotBase64, Base64Of(NotJson), Base64Of(JsonOf([a |-> <<"b">>])),
     Base64Of(JsonOf(KeyDict(<<user_pk("p2"), transaction_sk(0, 1)>>)))}

\* The i-th deposit of 10.00 that c1 has received, stamped ts.
SeedDeposit(i, ts) ==
    [Idle EXCEPT !.via = "store", !.user = "c1", !.amount = 10000, !.ttype = "deposit",
                 !.by = "p1", !.ts = ts, !.txid = i + 1,
                 !.cur = (i - 1) * 10000, !.new = i * 10000]

RECURSIVE SeedDeposits(_, _, _)
SeedDeposits(t, tss, i) ==
    IF i > Len(tss) THEN t
    ELSE SeedDeposits(TransactWrite(t, SeedDeposit(i, tss[i])), tss, i + 1)

InitPages ==
    /\ \E n \in 0..MaxRecords :
         \E tss \in [1..n -> 0..MaxClock] :
            /\ table = SeedDeposits(
                           create_user_profile(
                               TransactWrite(
                                   create_user_profile(<<>>, "c2", "e2", "Ben", "child", "p1",
                                                       0, DEFAULT_INTEREST_RATE, 0),
                                   FirstDeposit),
                               "c1", "e1", "Ann", "child", "p1", 0, DEFAULT_INTEREST_RATE, 0),
                           tss, 1)
            /\ nextTx = n + 1
            /\ returned = {ReturnedTransaction(FirstDeposit)}
                             \cup {ReturnedTransaction(SeedDeposit(i, tss[i])) : i \in 1..n}
            /\ writes = [id \in 1..(n + 1) |->
                            IF id = 1 THEN [before |-> 0, after |-> 10000]
                            ELSE [before |-> (id - 2) * 10000, after |-> (id - 1) * 10000]]
    /\ now = MaxClock
    /\ cognito = <<>>
    /\ subs = 0
    /\ pc = [p \in Procs |-> "idle"]
    /\ loc = [p \in Procs |-> Idle]
    /\ job = NoRun
    /\ last = None
    /\ created = ("c1" :> 0) @@ ("c2" :> 0)
    /\ overwritten = {}

\* The first call: get_transactions(user_id, limit, next_token).
PagesStart(p) ==
    /\ pc[p] = "idle"
    /\ \E user_id \in ProfileUsers, limit \in PageLimits,
          next_token \in {NoToken} \cup ForeignTokens :
          loc' = [loc EXCEPT ![p] = [Idle EXCEPT !.via = "pages", !.user = user_id,
                                                !.amount = limit, !.token = next_token,
                                                !.start = next_token]]
    /\ pc' = [pc EXCEPT ![p] = "pg_call"]
    /\ UNCHANGED <<table, now, nextTx, cognito, subs, job, last, created, overwritten,
                   returned, writes>>

\* One call of get_transactions with the token in hand (lines 207-246): it
\* raises, or returns a page that the client appends to what it has.
GetTransactionsCall(p) ==
    /\ pc[p] = "pg_call"
    /\ LET raises == QueryRaises(loc[p].user, loc[p].amount, ExclusiveStartKey(loc[p].token))
           result == GetTransactionsResult(table, loc[p].user, loc[p].amount, loc[p].token)
       IN  IF raises # None
           THEN /\ last' = raises
                /\ pc' = [pc EXCEPT ![p] = "pg_failed"]
                /\ UNCHANGED loc
           ELSE /\ last' = "ok"
                /\ loc' = [loc EXCEPT ![p].page = result.transactions,
                                      ![p].body = @ \o result.transactions,
                                      ![p].token = result.nextToken]
                /\ pc' = [pc EXCEPT ![p] = IF result.nextToken = NoToken
                                            THEN "pg_done" ELSE "pg_call"]
    /\ UNCHANGED <<table, now, nextTx, cognito, subs, job, created, overwritten,
                   returned, writes>>

\* The client has all the pages, or the exception: it is done.
PagesEnd(p) ==
    /\ pc[p] \in {"pg_done", "pg_failed"}
    /\ pc' = [pc EXCEPT ![p] = "idle"]
    /\ loc' = [loc EXCEPT ![p] = Idle]
    /\ last' = None
    /\ UNCHANGED <<table, now, nextTx, cognito, subs, job, created, overwritten,
                   returned, writes>>

NextPages ==
    \/ PagesStart("r1")
    \/ GetTransactionsCall("r1")
    \/ PagesEnd("r1")

SpecPages == InitPages /\ [][NextPages]_vars

(* The handlers that create and change an account, one request at a time *)

\* A create-child request by any verified caller, either parent included.
CreateChildRequestAny(p) ==
    \E caller \in Callers, email \in Emails, initial_balance \in ReqInitialBalances,
       interest_rate \in ReqRates :
        CreateChildRequestBy(p, caller, email, initial_balance, interest_rate)

NextChild ==
    \/ \E p \in Requesters : CreateChildRequestAny(p)
    \/ \E p \in Requesters : CreateChildPut(p)
    \/ \E p \in Requesters : UpdateUserRequest(p)
    \/ \E p \in Requesters : UpdateUserGet(p)
    \/ \E p \in Requesters : UpdateUserUpdate(p)
    \/ \E p \in Requesters : AdjustBalanceRequest(p)
    \/ \E p \in Requesters : AdjustBalanceGet(p)
    \/ \E p \in Requesters : AdjustRead(p)
    \/ \E p \in Requesters : AdjustWrite(p)
    \/ \E p \in Requesters : Deliver(p)

SpecChild == Init /\ [][NextChild]_vars

(* The family: requests to the update-user handler once parents p1 and p2 and
   p1's child c1 have their profile rows *)

FamilyTargets == {"p1", "c1"}
FamilyUpdateArgs == {<<"Bob", NoRate>>, <<None, 7>>, <<None, NoRate>>}

InitFamily ==
    /\ table = create_user_profile(
                   create_user_profile(
                       create_user_profile(<<>>, "p1", "ep1", "Pat", "parent", None,
                                           0, DEFAULT_INTEREST_RATE, 0),
                       "p2", "ep2", "Quin", "parent", None, 0, DEFAULT_INTEREST_RATE, 0),
                   "c1", "e1", "Ann", "child", "p1", 10000, DEFAULT_INTEREST_RATE, 0)
    /\ now = 0
    /\ nextTx = 0
    /\ cognito = ("e1" :> [sub |-> "c1", group |-> "Children"])
    /\ subs = 1
    /\ pc = [p \in Procs |-> "idle"]
    /\ loc = [p \in Procs |-> Idle]
    /\ job = NoRun
    /\ last = None
    /\ created = ("c1" :> 10000)
    /\ overwritten = {}
    /\ returned = {}
    /\ writes = <<>>

UpdateUserRequestFamily(p) ==
    \E caller \in Callers, target \in FamilyTargets, ua \in FamilyUpdateArgs :
        UpdateUserRequestBy(p, caller, target, ua[1], ua[2])

ListTransactionsRequest(p) ==
    \E caller \in Callers, target \in FamilyTargets, limit \in ReqLimitInputs :
        ListTransactionsRequestBy(p, caller, target, limit)

ChildSummaryRequest(p) ==
    \E caller \in Callers, child_id \in FamilyTargets \cup {None} :
        ChildSummaryRequestBy(p, caller, child_id)

NextFamily ==
    \/ \E p \in Requesters : UpdateUserRequestFamily(p)
    \/ \E p \in Requesters : UpdateUserGet(p)
    \/ \E p \in Requesters : UpdateUserUpdate(p)
    \/ \E p \in Requesters : ListTransactionsRequest(p)
    \/ \E p \in Requesters : ListTransactionsGet(p)
    \/ \E p \in Requesters : ListTransactionsQuery(p)
    \/ \E p \in Requesters : ChildSummaryRequest(p)
    \/ \E p \in Requesters : ChildSummaryGet(p)
    \/ \E p \in Requesters : ChildSummaryQuery(p)
    \/ \E p \in Requesters : AdjustBalanceRequest(p)
    \/ \E p \in Requesters : AdjustBalanceGet(p)
    \/ \E p \in Requesters : AdjustRead(p)
    \/ \E p \in Requesters : AdjustWrite(p)
    \/ \E p \in Requesters : Deliver(p)

SpecFamily == InitFamily /\ [][NextFamily]_vars

(* The cents: adjust-balance requests whose amount need not be a whole
   number of cents, over the same family *)

\* Amounts of a request: 0.005, 0.01, 10.00, -10.00.
CentAmounts == {[kind |-> "number", value |-> v] : v \in {5, 10, 10000, -10000}}

AdjustBalanceRequestCents(p) ==
    \E caller \in Callers, child_id \in FamilyTargets, amount \in CentAmounts :
        AdjustBalanceRequestBy(p, caller, child_id, amount)

NextCents ==
    \/ \E p \in Requesters : AdjustBalanceRequestCents(p)
    \/ \E p \in Requesters : AdjustBalanceGet(p)
    \/ \E p \in Requesters : AdjustRead(p)
    \/ \E p \in Requesters : AdjustWrite(p)
    \/ \E p \in Requesters : Deliver(p)

SpecCents == InitFamily /\ [][NextCents]_vars

(* The limits: list-transactions requests with any integer limit, beside
   adjust-balance requests, over the same family *)

LimitInputs ==
    ReqLimitInputs \cup {[kind |-> "number", value |-> v] : v \in {-5, 0, 100, 101}}

ListTransactionsRequestLimits(p) ==
    \E caller \in Callers, target \in FamilyTargets, limit \in LimitInputs :
        ListTransactionsRequestBy(p, caller, target, limit)

NextLimits ==
    \/ \E p \in Requesters : ListTransactionsRequestLimits(p)
    \/ \E p \in Requesters : ListTransactionsGet(p)
    \/ \E p \in Requesters : ListTransactionsQuery(p)
    \/ \E p \in Requesters : AdjustBalanceRequest(p)
    \/ \E p \in Requesters : AdjustBalanceGet(p)
    \/ \E p \in Requesters : AdjustRead(p)
    \/ \E p \in Requesters : AdjustWrite(p)
    \/ \E p \in Requesters : Deliver(p)

SpecLimits == InitFamily /\ [][NextLimits]_vars

(* The job: runs of the interest job over two children already created,
   beside direct calls of adjust_balance_with_transaction on the first *)

\* Balances (0.00, 0.09, 0.10, 100.00) and rates (0, 0.05) of the two children.
SeedBalances == {0, 90, 100, 10000}
SeedRates == {0, 5}

InitJob ==
    /\ \E b1 \in SeedBalances, b2 \in SeedBalances, r1 \in SeedRates, r2 \in SeedRates :
          /\ table = create_user_profile(
                         create_user_profile(<<>>, "c1", "e1", "Ann", "child", "p1", b1, r1, 0),
                         "c2", "e2", "Ben", "child", "p1", b2, r2, 0)
          /\ created = [u \in SeededChildren |-> IF u = "c1" THEN b1 ELSE b2]
    /\ now = 0
    /\ nextTx = 0
    /\ cognito = <<>>
    /\ subs = 0
    /\ pc = [p \in Procs |-> "idle"]
    /\ loc = [p \in Procs |-> Idle]
    /\ job = NoRun
    /\ last = None
    /\ overwritten = {}
    /\ returned = {}
    /\ writes = <<>>

NextJob ==
    \/ JobScan
    \/ JobChild
    \/ AdjustRead("job")
    \/ AdjustWrite("job")
    \/ JobFinish
    \/ Deliver("job")
    \/ AdjustStart("r1")
    \/ AdjustRead("r1")
    \/ AdjustWrite("r1")

SpecJob == InitJob /\ [][NextJob]_vars

--------------------------------------------------------------------------
(* Properties *)

\* The stored balance of an account.
Balance(t, user_id) == Profile(t, user_id).balance
HasBalance(t, user_id) == HasProfile(t, user_id) /\ Has(Profile(t, user_id), "balance")

\* Call p leaves its transactional write in this step / ends in this step.
WriteStep(p) == pc[p] = "adj_write" /\ pc'[p] # "adj_write"
ReadStep(p) == pc[p] = "adj_read" /\ pc'[p] # "adj_read"

Failures == {"NotFoundError", "InsufficientFundsError", "ConflictError", "DatabaseError"}

\* C1 as stated: of two calls on one account that read the same balance before
\* either wrote, once one has committed the other never commits: its write
\* leaves the table alone and it ends with ConflictError (DatabaseError when the
\* store refuses the call), the balance being the read balance plus the
\* committed call's amount.
C1_AtMostOneCommits ==
    [][\A q \in Clients :
        (WriteStep(q) /\ loc[q].rival # "none")
            => /\ table' = table
               /\ last' \in {"ConflictError", "DatabaseError"}
               /\ Balance(table', loc[q].user) = loc[q].cur + loc[q].rivalAmount]_vars

\* C1 amended: of two calls on one account that read the same balance before
\* either wrote, once one has committed a nonzero amount, and nothing else has
\* written the account since, the other does not commit: its write leaves the
\* table alone, it ends with ConflictError (DatabaseError when the store refuses
\* the call), and the balance is the read balance plus the committed amount.
C1_LoserConflicts ==
    [][\A q \in Clients :
        (WriteStep(q) /\ loc[q].rival = "clean" /\ loc[q].rivalAmount # 0)
            => /\ table' = table
               /\ last' \in {"ConflictError", "DatabaseError"}
               /\ Balance(table', loc[q].user) = loc[q].cur + loc[q].rivalAmount]_vars

\* C1 witness: two calls were made on an account nothing else wrote, both have
\* ended, exactly one record (of a nonzero amount) was written and the call
\* that ended last got ConflictError.
C1_Witness ==
    /\ nextTx = 2
    /\ \A p \in Clients : pc[p] = "idle"
    /\ overwritten = {}
    /\ last = "ConflictError"
    /\ \E r \in Transactions(table, "c1") :
          /\ Transactions(table, "c1") = {r}
          /\ r.amount # 0
          /\ Balance(table, "c1") = created["c1"] + r.amount

\* The sum of the amounts of a set of returned records.
RECURSIVE SumAmounts(_)
SumAmounts(records) ==
    IF records = {} THEN 0
    ELSE LET r == CHOOSE x \in records : TRUE
         IN  r.amount + SumAmounts(records \ {r})

ReturnedFor(user_id) == {r \in returned : r.userId = user_id}

\* C2: no lost update. While nothing but adjust_balance_with_transaction has
\* written the balance of an account since it was created, its stored balance
\* is the balance it was created with plus the sum of the amounts of the calls
\* that returned a transaction; and the account's stored records are, one for
\* one, the transactions returned.
C2_NoLostUpdate ==
    \A u \in UserIds :
        /\ {r.transactionId : r \in Transactions(table, u)}
              = {r.transactionId : r \in ReturnedFor(u)}
        /\ Cardinality(TransactionKeys(table, u)) = Cardinality(ReturnedFor(u))
        /\ \A r \in Transactions(table, u) :
              \E x \in ReturnedFor(u) :
                  /\ x.transactionId = r.transactionId
                  /\ x.amount = r.amount
                  /\ x.balanceAfter = r.balanceAfter
        /\ (u \in DOMAIN created /\ u \notin overwritten /\ HasBalance(table, u))
              => Balance(table, u) = created[u] + SumAmounts(ReturnedFor(u))

\* C2 witness: two deposits on an account nothing else wrote both returned a
\* transaction, and the balance carries both amounts.
C2_Witness ==
    /\ "c1" \in DOMAIN created
    /\ "c1" \notin overwritten
    /\ Cardinality(ReturnedFor("c1")) = 2
    /\ \A r \in ReturnedFor("c1") : r.amount = 10000
    /\ Balance(table, "c1") = created["c1"] + 20000

\* C3: every stored balance is >= 0 when every account was created with a
\* balance >= 0, and so is the balanceAfter of every record; and a call that
\* reads a balance which its amount would take below zero never reaches the
\* write: it ends with InsufficientFundsError and the table is untouched.
C3_NeverNegative ==
    /\ [](\A u \in UserIds :
            (u \in DOMAIN created /\ created[u] >= 0 /\ HasBalance(table, u))
                => /\ Balance(table, u) >= 0
                   /\ \A r \in Transactions(table, u) : r.balanceAfter >= 0)
    /\ [][\A p \in Clients :
            (/\ ReadStep(p)
             /\ HasProfile(table, loc[p].user)
             /\ CurrentBalance(Profile(table, loc[p].user)) + loc[p].amount < 0)
                => /\ pc'[p] = "idle"
                   /\ last' \in {"InsufficientFundsError", "DatabaseError"}
                   /\ table' = table]_vars

\* C3 witness: a withdrawal emptied the account and a second withdrawal was
\* refused for lack of funds.
C3_Witness ==
    /\ HasBalance(table, "c1")
    /\ Balance(table, "c1") = 0
    /\ \E r \in Transactions(table, "c1") : r.amount < 0
    /\ last = "InsufficientFundsError"

\* C4: for every stored record, balanceAfter is the account's stored balance
\* right after the write that put the record, and is the stored balance right
\* before that write plus the record's amount.
C4_BalanceAfter ==
    \A k \in AllTransactionKeys(table) :
        /\ table[k].transactionId \in DOMAIN writes
        /\ table[k].balanceAfter = writes[table[k].transactionId].after
        /\ table[k].balanceAfter = writes[table[k].transactionId].before + table[k].amount

\* C4 witness: a record was written on a balance that an earlier committed
\* call had already moved away from the balance the account was created with.
C4_Witness ==
    \E k \in AllTransactionKeys(table) :
        /\ table[k].amount # 0
        /\ writes[table[k].transactionId].before # created["c1"]
        /\ "c1" \notin overwritten

\* C5: a call that ends with NotFoundError, InsufficientFundsError,
\* ConflictError or DatabaseError leaves the whole table as it was (the
\* account's balance and updatedAt and every record), and no stored record
\* carries the failed call's transaction id.
C5_FailureWritesNothing ==
    [][\A p \in Clients :
        ((ReadStep(p) \/ WriteStep(p)) /\ last' \in Failures /\ pc'[p] = "idle")
            => /\ table' = table
               /\ \A k \in AllTransactionKeys(table') :
                     table'[k].transactionId # loc[p].txid]_vars

\* C5 witness: a call has just lost to a committed rival and ended with
\* ConflictError, the rival's record being the only one.
C5_Witness ==
    /\ last = "ConflictError"
    /\ nextTx = 2
    /\ Cardinality(AllTransactionKeys(table)) = 1
    /\ \A p \in Clients : pc[p] = "idle"

\* C6: the log is append-only. In every step each stored record stays, with
\* every field as it was; and when records appear, it is one record, put by a
\* call whose transactional write commits in that step.
C6_AppendOnly ==
    [][/\ \A k \in AllTransactionKeys(table) : k \in DOMAIN table' /\ table'[k] = table[k]
       /\ AllTransactionKeys(table') # AllTransactionKeys(table)
            => \E p \in Procs :
                  /\ WriteStep(p)
                  /\ ConditionHolds(table, loc[p].user, loc[p].cur)
                  /\ Balance(table', loc[p].user) = loc[p].new
                  /\ Cardinality(AllTransactionKeys(table') \ AllTransactionKeys(table)) = 1
                  /\ \A k \in AllTransactionKeys(table') \ AllTransactionKeys(table) :
                        /\ table'[k].transactionId = loc[p].txid
                        /\ table'[k].userId = loc[p].user]_vars

\* C6 witness: the account holds a parent's adjustment and the job's interest,
\* two records with the same timestamp, and the update-user handler has
\* written the account's row after both were put.
C6_Witness ==
    /\ \E k1, k2 \in TransactionKeys(table, "c1") :
          /\ k1[2][2] = 0 /\ k2[2][2] = 0
          /\ table[k1].type = "adjustment"
          /\ table[k2].type = "interest"
    /\ Profile(table, "c1").name = "Bob"
    /\ Profile(table, "c1").updatedAt = 1

\* C7: create_user_profile on a user id that already has a profile row does
\* not succeed (ConflictError; DatabaseError when the store refuses the call)
\* and leaves the row, its balance included, as it was.
C7_CreateExistingConflicts ==
    [][\A u \in StoreUsers :
        (CreateUserProfile(u) /\ HasProfile(table, u))
            => /\ last' \in {"ConflictError", "DatabaseError"}
               /\ Profile(table', u) = Profile(table, u)]_vars

\* C8: update_user_profile on a user id with no profile row does not succeed
\* (NotFoundError; DatabaseError when the store refuses the call) and creates
\* no row: get_user_profile still finds nothing for the id.
C8_UpdateMissingNotFound ==
    [][\A u \in StoreUsers :
        (UpdateUserProfile(u) /\ ~HasProfile(table, u))
            => /\ last' \in {"NotFoundError", "DatabaseError"}
               /\ Missing(get_user_profile(table', u))]_vars

\* C9: every stored account's balance is >= 0, the balance an account is
\* created with included.
C9_BalanceNeverNegative ==
    \A u \in UserIds : HasBalance(table, u) => Balance(table, u) >= 0

\* C10: when an adjustment that is not the job's has committed on a child's
\* account since the job's scan read the (positive) balance its interest is
\* computed from, the job's write for that child does not commit: the table
\* stays as it is (no interest record) and the child is counted as failed.
C10_StaleInterestConflicts ==
    [][(WriteStep("job") /\ loc["job"].user \in job.touched /\ job.scanned > 0)
            => /\ table' = table
               /\ job'.failed = job.failed + 1
               /\ job'.successful = job.successful]_vars

\* The job is inside a run / inside its adjust_balance_with_transaction call.
JobRunning == pc["job"] \in {"job_loop", "adj_read", "adj_write"}
JobInCall == pc["job"] \in {"adj_read", "adj_write"}

\* The interest records put on an account since the scan of the run under way.
InterestSinceScan(user_id) ==
    {k \in TransactionKeys(table, user_id) \ job.base : table[k].type = "interest"}

\* What the steps of the job's loop do to the children still to come.
JobLoopSteps ==
    /\ (pc["job"] = "job_loop" /\ job'.children # job.children)
          => /\ job'.children = Tail(job.children)
             /\ (pc'["job"] = "adj_read" => loc'["job"].user = Head(job.children).userId)
    /\ (JobInCall /\ pc'["job"] \notin {"adj_read", "adj_write"})
          => /\ pc'["job"] = "job_loop"
             /\ job'.children = job.children
    /\ (pc["job"] = "job_loop" /\ pc'["job"] = "respond")
          => /\ job.children = <<>>
             /\ job.successful + job.skipped + job.failed = job.totalChildren

\* C11: in a run of the job every child of the scan is handled once. The
\* children counted successful, skipped or failed, the child whose call is
\* under way and the children still to come add up to totalChildren (so the
\* three counters add up to it when the loop ends); each step of the loop takes
\* the child at the head of what is left; a call that ends, however it ends,
\* returns to the loop with the children to come untouched; and no account
\* gets more than one interest record in a run.
C11_EveryChildOnce ==
    /\ [](JobRunning =>
            /\ job.successful + job.skipped + job.failed + Len(job.children)
                  + (IF JobInCall THEN 1 ELSE 0) = job.totalChildren
            /\ \A u \in UserIds : Cardinality(InterestSinceScan(u)) <= 1)
    /\ [][JobLoopSteps]_vars

\* C11 witness: the loop over two children has ended; the first child's call
\* failed (it has no interest record and nothing was skipped) and the second
\* child, handled after it, got its interest.
C11_Witness ==
    /\ pc["job"] = "job_loop"
    /\ job.children = <<>>
    /\ job.totalChildren = 2
    /\ job.failed = 1
    /\ job.successful = 1
    /\ InterestSinceScan("c1") = {}
    /\ Cardinality(InterestSinceScan("c2")) = 1

\* `interest` (thousandths) is `product` (balance in thousandths times rate in
\* hundredths, a count of 1/100000) rounded to whole cents, a half cent going
\* up in magnitude: a whole number of cents, at most half a cent from the
\* product, and beyond it when exactly half a cent away.
IsRoundedHalfUp(interest, product) ==
    /\ interest % 10 = 0
    /\ Abs(100 * interest - product) <= 500
    /\ Abs(100 * interest - product) = 500 => Abs(100 * interest) > Abs(product)

\* The step of the loop that takes a child for which interest is due.
JobTakesInterestChild ==
    /\ pc["job"] = "job_loop"
    /\ job'.children # job.children
    /\ Get(Head(job.children), "interestRate", 0) # 0
    /\ Get(Head(job.children), "balance", 0) # 0
    /\ ~IsRoundedHalfUp(0, Get(Head(job.children), "balance", 0)
                              * Get(Head(job.children), "interestRate", 0))

\* The job's write for a child no one else has adjusted since the scan.
JobWritesUndisturbed == WriteStep("job") /\ loc["job"].user \notin job.touched

\* The record the job's write adds, when it adds one.
JobInterestRecordAdded ==
    \E k \in TransactionKeys(table', loc["job"].user) :
        /\ AllTransactionKeys(table') = AllTransactionKeys(table) \cup {k}
        /\ k \notin DOMAIN table
        /\ table'[k].type = "interest"
        /\ table'[k].initiatedBy = "SYSTEM"
        /\ table'[k].amount = loc["job"].amount
        /\ table'[k].balanceAfter = job.scanned + loc["job"].amount

\* C12: for a child with nonzero rate and balance whose rounded interest is
\* not zero the job enters adjust_balance_with_transaction for that child with
\* the balance times the rate rounded half-up to cents as the amount, type
\* interest, initiated by SYSTEM. When no one else has adjusted the account
\* since the scan, the write's condition holds on the scanned balance, and the
\* write either is refused by the store (the child is counted failed, nothing
\* is written) or makes the balance the scanned balance plus the interest and
\* adds exactly one interest record with that balanceAfter.
C12_InterestApplied ==
    /\ []((pc["job"] = "adj_write" /\ loc["job"].user \notin job.touched)
            => /\ loc["job"].cur = job.scanned
               /\ ConditionHolds(table, loc["job"].user, job.scanned))
    /\ [][JobTakesInterestChild
            => /\ pc'["job"] = "adj_read"
               /\ loc'["job"].user = Head(job.children).userId
               /\ IsRoundedHalfUp(loc'["job"].amount,
                                   Head(job.children).balance * Head(job.children).interestRate)
               /\ loc'["job"].ttype = "interest"
               /\ loc'["job"].by = "SYSTEM"]_vars
    /\ [][JobWritesUndisturbed
            => \/ /\ table' = table
                  /\ job'.failed = job.failed + 1
               \/ /\ Balance(table', loc["job"].user) = job.scanned + loc["job"].amount
                  /\ JobInterestRecordAdded
                  /\ job'.successful = job.successful + 1]_vars

\* C12 witness: the child with 100.00 at rate 0.05 has 105.00 and one record,
\* of 5.00 interest by SYSTEM, and the child with 0.10 has 0.11 and one record
\* of 0.01 (half a cent rounded up).
C12_Witness ==
    /\ Balance(table, "c1") = 10500
    /\ \E r \in Transactions(table, "c1") :
          /\ Transactions(table, "c1") = {r}
          /\ r.type = "interest" /\ r.initiatedBy = "SYSTEM"
          /\ r.amount = 500 /\ r.balanceAfter = 10500
    /\ Balance(table, "c2") = 110
    /\ \E r \in Transactions(table, "c2") : r.amount = 10 /\ r.balanceAfter = 110

\* The step of the loop that takes a child with rate zero, balance zero or a
\* rounded interest of zero.
JobTakesIdleChild ==
    /\ pc["job"] = "job_loop"
    /\ job'.children # job.children
    /\ \/ Get(Head(job.children), "interestRate", 0) = 0
       \/ Get(Head(job.children), "balance", 0) = 0
       \/ IsRoundedHalfUp(0, Get(Head(job.children), "balance", 0)
                               * Get(Head(job.children), "interestRate", 0))

\* C13: a child whose rate is zero, whose balance is zero or whose rounded
\* interest is zero is counted skipped and nothing else: the job stays in its
\* loop, enters no adjust_balance_with_transaction call (no transaction id is
\* taken) and the table is as it was; and whenever a write of the job changes
\* the table, it is for a child scanned with nonzero rate, balance and interest.
C13_SkippedUntouched ==
    /\ [][JobTakesIdleChild
            => /\ job'.skipped = job.skipped + 1
               /\ job'.successful = job.successful
               /\ job'.failed = job.failed
               /\ pc'["job"] = "job_loop"
               /\ loc' = loc
               /\ nextTx' = nextTx
               /\ table' = table]_vars
    /\ [][(WriteStep("job") /\ table' # table)
            => /\ job.scanned # 0
               /\ loc["job"].rate # 0
               /\ loc["job"].amount # 0
               /\ \A u \in UserIds \ {loc["job"].user} :
                     /\ HasProfile(table, u) => Profile(table', u) = Profile(table, u)
                     /\ TransactionKeys(table', u) = TransactionKeys(table, u)]_vars

\* C13 witness: the loop has ended with both children skipped, one that has
\* 0.09 at rate 0.05 (interest rounds to zero) and one that has 100.00 at rate
\* zero; neither has a record and both balances are as they were.
C13_Witness ==
    /\ pc["job"] = "job_loop"
    /\ job.children = <<>>
    /\ job.skipped = 2
    /\ Balance(table, "c1") = 90 /\ Profile(table, "c1").interestRate = 5
    /\ Balance(table, "c2") = 10000 /\ Profile(table, "c2").interestRate = 0
    /\ AllTransactionKeys(table) = {}

\* Requester p is inside the adjust_balance_with_transaction call of a request.
InHandlerCall(p) == pc[p] \in {"adj_read", "adj_write"} /\ loc[p].via = "handler"

\* What the adjust-balance handler answers to callers other than the parent.
AdjustBalanceRefusals ==
    /\ \A caller \in Callers \ ParentIds, child_id \in ChildIds \cup {None},
          amount \in ReqAmountInputs :
          AdjustBalanceRequestBy("r1", caller, child_id, amount)
              => /\ pc'["r1"] = "respond"
                 /\ last' = "ForbiddenError"
                 /\ StatusCode(last') = 403
                 /\ table' = table
    /\ (pc["r1"] = "ab_get" /\ pc'["r1"] # "ab_get")
          => /\ table' = table
             /\ ~HasProfile(table, loc["r1"].user)
                   => /\ pc'["r1"] = "respond"
                      /\ last' \in {"NotFoundError", "DatabaseError"}
                      /\ StatusCode(last') \in {404, 500}
             /\ (/\ HasProfile(table, loc["r1"].user)
                 /\ Get(Profile(table, loc["r1"].user), "parentId", None) # loc["r1"].caller)
                   => /\ pc'["r1"] = "respond"
                      /\ last' \in {"ForbiddenError", "DatabaseError"}
                      /\ StatusCode(last') \in {403, 500}

\* C14: a request to the adjust-balance handler is inside the store's
\* adjust_balance_with_transaction, and so can commit, only when its caller is
\* in Parents and the stored parentId of the account is the caller's id. A
\* caller who is not in Parents is answered 403; a parent is answered 404 when
\* the account has no row and 403 when its parentId is someone else's (500
\* when the read itself fails); none of these steps changes the table.
C14_OnlyOwnParentAdjusts ==
    /\ [](\A p \in Requesters :
            InHandlerCall(p)
                => /\ loc[p].caller \in ParentIds
                   /\ HasProfile(table, loc[p].user)
                   /\ Get(Profile(table, loc[p].user), "parentId", None) = loc[p].caller)
    /\ [][AdjustBalanceRefusals]_vars

\* C14 witness: the parent's request has committed on their own child: the
\* account holds an adjustment initiated by its parent and the handler is
\* about to answer.
C14_Witness ==
    /\ pc["r1"] = "respond"
    /\ last = "ok"
    /\ HasProfile(table, "c1")
    /\ Get(Profile(table, "c1"), "parentId", None) = "p1"
    /\ \E r \in Transactions(table, "c1") : r.type = "adjustment" /\ r.initiatedBy = "p1"

\* The step in which the adjust-balance handler returns its response.
AdjustBalanceResponds ==
    /\ pc'["r1"] = "respond"
    /\ \/ AdjustBalanceRequest("r1")
       \/ pc["r1"] = "ab_get"
       \/ InHandlerCall("r1")

\* The step commits the request of r1: the balance moves by the amount and
\* one record, the request's, is added.
AdjustBalanceCommits ==
    /\ pc["r1"] = "adj_write"
    /\ HasBalance(table, loc["r1"].user)
    /\ Balance(table', loc["r1"].user) = Balance(table, loc["r1"].user) + loc["r1"].amount
    /\ \E k \in TransactionKeys(table', loc["r1"].user) :
          /\ k \notin DOMAIN table
          /\ DOMAIN table' = DOMAIN table \cup {k}
          /\ table'[k].transactionId = loc["r1"].txid
          /\ table'[k].amount = loc["r1"].amount
          /\ table'[k].type = "adjustment"

\* The status of each outcome of the handler, and when each outcome arises.
AdjustBalanceStatuses ==
    /\ StatusCode(last') \in {200, 400, 403, 404, 409, 500}
    /\ last' = "ConflictError" => StatusCode(last') = 409
    /\ last' = "InsufficientFundsError" => StatusCode(last') = 400
    /\ last' = "BadRequestError" => StatusCode(last') = 400
    /\ last' = "NotFoundError" => StatusCode(last') = 404
    /\ last' = "ForbiddenError" => StatusCode(last') = 403
    /\ last' = "DatabaseError" => StatusCode(last') = 500
    /\ (pc["r1"] = "adj_write" /\ ~ConditionHolds(table, loc["r1"].user, loc["r1"].cur))
          => last' \in {"ConflictError", "DatabaseError"}
    /\ (pc["r1"] = "adj_read" /\ ~HasProfile(table, loc["r1"].user))
          => last' \in {"NotFoundError", "DatabaseError"}
    /\ (/\ pc["r1"] = "adj_read"
        /\ HasProfile(table, loc["r1"].user)
        /\ CurrentBalance(Profile(table, loc["r1"].user)) + loc["r1"].amount < 0)
          => last' \in {"InsufficientFundsError", "DatabaseError"}

\* C15: the adjust-balance handler answers 200 exactly when the step that
\* ends its request commits the balance change with its one record; Conflict
\* is answered 409, InsufficientFunds 400, NotFound 404, Forbidden 403 and a
\* storage failure 500; and with every other status the table is as it was.
C15_StatusMatchesCommit ==
    [][AdjustBalanceResponds
        => /\ StatusCode(last') = 200 <=> AdjustBalanceCommits
           /\ StatusCode(last') # 200 => table' = table
           /\ AdjustBalanceStatuses]_vars

\* C15 witness: the handler is answering 409: the job's interest was written
\* between the request's read and its write, and the request wrote nothing.
C15_Witness ==
    /\ pc["r1"] = "respond"
    /\ last = "ConflictError"
    /\ StatusCode(last) = 409
    /\ \A r \in Transactions(table, "c1") : r.type = "interest"
    /\ Transactions(table, "c1") # {}

\* The request body is malformed: no childId, no amount, an amount that is no
\* number, or an amount of zero.
Malformed(child_id, amount) ==
    \/ child_id = None
    \/ amount.kind \in {"missing", "text"}
    \/ (amount.kind = "number" /\ amount.value = 0)

\* C16: a parent's request to the adjust-balance handler with no childId, no
\* amount, an amount that is no number or an amount of zero is answered 400
\* (BadRequestError) at once: the table is not read or written and no
\* adjust_balance_with_transaction call is entered.
C16_MalformedIs400 ==
    [][\A caller \in ParentIds, child_id \in ChildIds \cup {None}, amount \in ReqAmountInputs :
        (AdjustBalanceRequestBy("r1", caller, child_id, amount) /\ Malformed(child_id, amount))
            => /\ pc'["r1"] = "respond"
               /\ last' = "BadRequestError"
               /\ StatusCode(last') = 400
               /\ table' = table
               /\ nextTx' = nextTx]_vars

\* The step changes the name stored on user_id's profile row.
NameChanges(user_id) ==
    /\ HasProfile(table, user_id)
    /\ Get(Profile(table', user_id), "name", None) # Get(Profile(table, user_id), "name", None)

\* C17: when the update-user handler's write changes the name on an account's
\* profile row, the verified caller of that request is the account itself;
\* no other caller, the account's parent included, changes it.
C17_OnlyOwnerRenames ==
    [][\A user_id \in UserIds :
        (UpdateUserUpdate("r1") /\ NameChanges(user_id)) => loc["r1"].caller = user_id]_vars

\* The step changes the interest rate stored on user_id's profile row.
RateChanges(user_id) ==
    /\ HasProfile(table, user_id)
    /\ Get(Profile(table', user_id), "interestRate", NoRate)
           # Get(Profile(table, user_id), "interestRate", NoRate)

\* C18: when the update-user handler's write changes the interest rate on an
\* account's profile row, the caller is in Parents and the account is a child
\* whose parentId is the caller's id.
C18_OnlyParentSetsChildRate ==
    [][\A user_id \in UserIds :
        (UpdateUserUpdate("r1") /\ RateChanges(user_id))
            => /\ loc["r1"].caller \in ParentIds
               /\ Get(Profile(table, user_id), "role", None) = "child"
               /\ Get(Profile(table, user_id), "parentId", None) = loc["r1"].caller]_vars

\* caller may see the records of account user_id: it is the account itself,
\* or a parent whose id is the parentId stored on the account's row.
MaySee(caller, user_id) ==
    \/ caller = user_id
    \/ /\ caller \in ParentIds
       /\ user_id \in UserIds
       /\ HasProfile(table, user_id)
       /\ Get(Profile(table, user_id), "parentId", None) = caller

\* p's list-transactions or child-summary request is answered in this step.
RecordsRequestAnswered(p) ==
    /\ pc[p] # "respond"
    /\ pc'[p] = "respond"
    /\ loc'[p].via \in {"list", "summary"}

Range(seq) == {seq[i] : i \in 1..Len(seq)}

\* C19: when the list-transactions or the child-summary handler answers a
\* request of caller about account X, every record in the body is a record of
\* X, and unless the caller is X itself or a parent whose id is X's stored
\* parentId the answer is an error status with no records.
C19_RecordsOnlyToOwnerOrParent ==
    [][\A p \in Requesters :
        RecordsRequestAnswered(p)
            => /\ \A tx \in Range(loc'[p].body) : tx.userId = loc'[p].user
               /\ MaySee(loc'[p].caller, loc'[p].user)
                    \/ (StatusCode(last') >= 400 /\ loc'[p].body = <<>>)]_vars

\* Parent p1 has been answered 200 with a record of its child c1.
C19_Witness ==
    /\ pc["r1"] = "respond"
    /\ loc["r1"].via \in {"list", "summary"}
    /\ loc["r1"].caller = "p1"
    /\ loc["r1"].user = "c1"
    /\ last = "ok"
    /\ loc["r1"].body # <<>>

\* The user ids of the profiles a listing returns.
ListedIds(children) == {children[i].userId : i \in 1..Len(children)}

\* user_id's row is a child's and both listings return it.
IsListedChild(t, user_id) ==
    /\ HasProfile(t, user_id)
    /\ Get(Profile(t, user_id), "role", None) = "child"
    /\ Get(Profile(t, user_id), "parentId", None) \in ParentIds
    /\ user_id \in ListedIds(get_children_for_parent(t, Profile(t, user_id).parentId))
    /\ user_id \in ListedIds(scan_all_children(t))

\* The create-child handler stores a profile row in this step.
CreateChildStores(p) == CreateChildPut(p) /\ table' # table

C21_ChildHasParent ==
    \A user_id \in UserIds :
        HasProfile(table, user_id)
            => /\ Get(Profile(table, user_id), "role", None) = "child"
                    => Get(Profile(table, user_id), "parentId", None) # None
               /\ Get(Profile(table, user_id), "role", None) = "parent"
                    => ~Has(Profile(table, user_id), "parentId")

\* The item under a key, with no attribute when the key holds nothing.
ItemAt(t, key) == IF key \in DOMAIN t THEN t[key] ELSE <<>>

\* The attributes a call of update_user_profile is asked to set.
Supplied(name, interest_rate) ==
    {"updatedAt"} \cup (IF name # None THEN {"name"} ELSE {})
                  \cup (IF interest_rate # NoRate THEN {"interestRate"} ELSE {})

\* Between this state and the next, the table differs at most in the
\* attributes attrs of user_id's profile row.
OnlyProfileAttributesChange(user_id, attrs) ==
    LET old == ItemAt(table, ProfileKey(user_id))
        new == ItemAt(table', ProfileKey(user_id))
    IN  /\ DOMAIN table' \ {ProfileKey(user_id)} = DOMAIN table \ {ProfileKey(user_id)}
        /\ \A k \in DOMAIN table \ {ProfileKey(user_id)} : table'[k] = table[k]
        /\ \A a \in (DOMAIN old \cup DOMAIN new) \ attrs :
              a \in DOMAIN old /\ a \in DOMAIN new /\ new[a] = old[a]

\* C22: a call update_user_profile(user_id, name, interest_rate) changes at
\* most name (when given), interestRate (when given) and updatedAt of
\* user_id's profile row, and a call that succeeds leaves the given values
\* there; balance, role, parentId, email, the index keys, every transaction
\* record and every other account's row stay as they were.
C22_UpdateChangesOnlySupplied ==
    [][\A user_id \in ProfileUsers, ua \in ProfileUpdateArgs :
        UpdateUserProfileBy(user_id, ua[1], ua[2])
            => /\ OnlyProfileAttributesChange(user_id, Supplied(ua[1], ua[2]))
               /\ last' = "ok"
                    => /\ ua[1] # None => Profile(table', user_id).name = ua[1]
                       /\ ua[2] # NoRate => Profile(table', user_id).interestRate = ua[2]
                       /\ Profile(table', user_id).updatedAt = now']_vars

\* c2's row, a child of p1 with a balance of 10.00 and a deposit on record,
\* has been given a new name and a new rate at a later time.
C22_Witness ==
    /\ HasProfile(table, "c2")
    /\ Profile(table, "c2").email = "e2"
    /\ Profile(table, "c2").name = "Bob"
    /\ Profile(table, "c2").interestRate = 7
    /\ Profile(table, "c2").updatedAt = 1
    /\ Profile(table, "c2").createdAt = 0
    /\ Profile(table, "c2").balance = 10000
    /\ Profile(table, "c2").parentId = "p1"
    /\ Transactions(table, "c2") # {}
    /\ HasProfile(table, "c1")

\* The sort key of a stored record, from its own attributes.
SortKeyOf(tx) == transaction_sk(tx.timestamp, tx.transactionId)

\* Sort key a is strictly above sort key b: a later timestamp, or the same
\* timestamp and a greater transaction id.
SortKeyAbove(a, b) == a[2] > b[2] \/ (a[2] = b[2] /\ a[3] > b[3])

\* Every item of the sequence has a sort key strictly above the next one's.
StrictlyDescending(txs) ==
    \A i \in 1..(Len(txs) - 1) : SortKeyAbove(SortKeyOf(txs[i]), SortKeyOf(txs[i + 1]))

\* p's call of get_transactions returns a page in this step.
PageReturned(p) == pc[p] = "pg_call" /\ pc'[p] \in {"pg_call", "pg_done"}

\* p started with no token and follows the nextToken of each page.
FollowsPages(p) == pc[p] \in {"pg_call", "pg_done"} /\ loc[p].start = NoToken

Clamped(n) == IF n > 100 THEN 100 ELSE IF n < 1 THEN 1 ELSE n

\* C24: for any integer limit in the request, the limit the list-transactions
\* handler goes on to query the store with lies in 1..100: a value above 100
\* has become 100 and a value below 1 has become 1.
C24_LimitClamped ==
    [][\A p \in Requesters, caller \in Callers, target \in FamilyTargets, limit \in LimitInputs :
         (/\ limit.kind = "number"
          /\ ListTransactionsRequestBy(p, caller, target, limit)
          /\ pc'[p] \in {"lt_get", "lt_query"})
            => loc'[p].amount = Clamped(limit.value)]_vars

\* C25: a call of get_transactions with a nextToken that no call produced
\* (text that is no base64, base64 of text that is no JSON, JSON that is no
\* key of the queried records) and a limit the store accepts raises nothing
\* and returns what the same call with no token returns: the first page.
C25_ForeignTokenIgnored ==
    [][\A p \in Requesters :
         (/\ GetTransactionsCall(p)
          /\ loc[p].token \in ForeignTokens
          /\ loc[p].amount >= 1)
            => /\ PageReturned(p)
               /\ loc'[p].page
                    = GetTransactionsResult(table, loc[p].user, loc[p].amount, NoToken).transactions
               /\ loc'[p].token
                    = GetTransactionsResult(table, loc[p].user, loc[p].amount, NoToken).nextToken]_vars

\* Instant a is earlier than instant b.
Earlier(a, b) ==
    a.second < b.second \/ (a.second = b.second /\ a.microsecond < b.microsecond)

\* Text a sorts before text b: at the first place where they differ a has the
\* lower character code, or a has ended there.
SortsBefore(a, b) ==
    \E i \in 1..(Len(b)) :
        /\ \A j \in 1..(i - 1) : j <= Len(a) /\ a[j] = b[j]
        /\ (i > Len(a) \/ a[i] < b[i])

\* C26: of two sort keys made by transaction_sk from timestamps taken as
\* adjust_balance_with_transaction takes them, with any transaction ids, the
\* one with the earlier timestamp sorts lexicographically before the other.
C26_KeysSortChronologically ==
    \A p \in Requesters :
        \A i, j \in 1..Len(loc[p].body) :
            Earlier(loc[p].body[i].at, loc[p].body[j].at)
                => SortsBefore(loc[p].body[i].sk, loc[p].body[j].sk)

\* The ids of the accounts whose profile has role child.
RoleChildIds(t) == {u \in UserIds : HasProfile(t, u) /\ Get(Profile(t, u), "role", None) = "child"}

\* C27: whatever the store holds, scan_all_children returns, by the role
\* index as by the filtered scan, exactly the profiles whose role is child.
C27_BothScansReturnRoleChildren ==
    \A p \in Requesters :
        pc[p] = "sc_done" => ListedIds(loc[p].body) = RoleChildIds(table)

\* The profiles a scan by the given way is to return: those under the role
\* index's child key, or those with role child.
Matching(t, via) ==
    {Profile(t, u) : u \in {id \in UserIds :
        /\ HasProfile(t, id)
        /\ IF via = "scan_gsi"
           THEN Has(Profile(t, id), "GSI2PK") /\ Profile(t, id).GSI2PK = <<"ROLE", "child">>
           ELSE Get(Profile(t, id), "role", None) = "child"}}

\* C28: with no write going on and any page size, the loop of
\* scan_all_children ends; it goes on exactly while the store returns a
\* LastEvaluatedKey, from that key; and what it returns holds every matching
\* child profile exactly once.
C28_ScanFollowsEveryPage ==
    /\ [](\A p \in Requesters :
            /\ pc[p] = "sc_loop"
                 => /\ Range(loc[p].body) \subseteq Matching(table, loc[p].via)
                    /\ Len(loc[p].body) = Cardinality(Range(loc[p].body))
            /\ pc[p] = "sc_done"
                 => /\ Range(loc[p].body) = Matching(table, loc[p].via)
                    /\ Len(loc[p].body) = Cardinality(Matching(table, loc[p].via)))
    /\ [][\A p \in Requesters :
            (pc[p] = "sc_loop" /\ pc'[p] = "sc_loop")
                => ~Missing(loc'[p].start) /\ loc'[p].start # loc[p].start]_vars
    /\ \A p \in Requesters : (pc[p] = "sc_loop") ~> (pc[p] \in {"sc_done", "sc_failed"})

\* A scan of the table with pages of one item has returned two children,
\* after pages that held no child.
C28_Witness ==
    /\ pc["r1"] = "sc_done"
    /\ loc["r1"].via = "scan_filter"
    /\ loc["r1"].amount = 1
    /\ Len(loc["r1"].body) = 2
    /\ HasProfile(table, "p1")

\* The request carries a Bearer Authorization header with a token that
\* verifies.
Authenticated(event) ==
    /\ event.headers.kind = "dict"
    /\ event.headers.name \in {"Authorization", "authorization"}
    /\ event.headers.scheme = "Bearer "
    /\ event.headers.token.kind = "id"

\* The token's groups include one of the required groups, if any is required.
InRequiredGroup(event, required_groups) ==
    required_groups # {} => \E g \in required_groups : g \in event.headers.token.groups

\* The handler is invoked only for an authenticated request in a required
\* group, and sees the token's userId and groups.
InvokedOnlyAuthorized(p, event, required_groups) ==
    pc'[p] = "au_handler"
        => /\ Authenticated(event)
           /\ InRequiredGroup(event, required_groups)
           /\ loc'[p].event.authorizer.userId = event.headers.token.sub
           /\ loc'[p].event.authorizer.groups = event.headers.token.groups

\* Any other request is answered 401 or 403 in the handler's place.
RefusedOtherwise(p, event, required_groups) ==
    /\ ~Authenticated(event)
         => pc'[p] = "au_refused" /\ StatusCode(last') = 401
    /\ (Authenticated(event) /\ ~InRequiredGroup(event, required_groups))
         => pc'[p] = "au_refused" /\ StatusCode(last') = 403

\* C29: authorize(required_groups) invokes the handler only for a request
\* with a Bearer Authorization header whose token verifies and whose groups
\* include a required group when any is required; every other request is
\* answered 401 (no or invalid token) or 403 (group mismatch) without the
\* handler; and the userId and groups the handler sees are the token's,
\* whatever authorizer data the event brought.
C29_AuthorizeGuardsHandler ==
    [][\A p \in Requesters, event \in Events, required_groups \in RequiredGroups :
         AuthorizeBy(p, event, required_groups)
            => /\ InvokedOnlyAuthorized(p, event, required_groups)
               /\ RefusedOtherwise(p, event, required_groups)]_vars

\* An amount of money, in thousandths, is a whole number of cents.
WholeCents(amount) == amount % 10 = 0

\* C30: every stored balance and every stored record's amount and
\* balanceAfter is a whole multiple of 0.01, whatever amounts the handlers
\* have accepted.
C30_MoneyInWholeCents ==
    /\ \A u \in UserIds :
          HasProfile(table, u) => WholeCents(Get(Profile(table, u), "balance", 0))
    /\ \A k \in AllTransactionKeys(table) :
          WholeCents(table[k].amount) /\ WholeCents(table[k].balanceAfter)

\* The records of the table written under transaction id `id`.
RecordsOfCall(t, id) == {k \in AllTransactionKeys(t) : k[2][3] = id}

\* C31: a call of adjust_balance_with_transaction reads the balance once and
\* attempts its transactional write once. The read leaves the table alone and
\* is not repeated; the write attempt ends the call; a write whose condition
\* fails changes nothing and ends in ConflictError (DatabaseError when the
\* store refuses the call) with no second read or write; and a write that
\* commits adds exactly one record, under the call's own transaction id, which
\* no record had before, so a call never commits more than one record.
C31_OneReadOneWriteAttempt ==
    [][\A p \in Clients :
         /\ ReadStep(p) => pc'[p] \in {"adj_write", "idle"} /\ table' = table
         /\ WriteStep(p)
              => /\ pc'[p] = "idle"
                 /\ RecordsOfCall(table, loc[p].txid) = {}
                 /\ AllTransactionKeys(table') \ AllTransactionKeys(table)
                      = RecordsOfCall(table', loc[p].txid)
                 /\ Cardinality(RecordsOfCall(table', loc[p].txid)) <= 1
                 /\ (HasBalance(table, loc[p].user) /\ Balance(table, loc[p].user) # loc[p].cur)
                      => /\ table' = table
                         /\ last' \in {"ConflictError", "DatabaseError"}]_vars

\* Two calls read the same balance; the first committed its record, the second
\* ended in ConflictError and has left no record of its own.
C31_Witness ==
    /\ nextTx = 2
    /\ \A p \in Clients : pc[p] = "idle"
    /\ last = "ConflictError"
    /\ Cardinality(RecordsOfCall(table, 1)) + Cardinality(RecordsOfCall(table, 2)) = 1
    /\ Cardinality(AllTransactionKeys(table)) = 1

\* p's cached key set is younger than 3600 seconds at the given clock reading.
CacheFresh(p, current_time) ==
    loc[p].jwks_cache # None /\ current_time - loc[p].jwks_cache_time < 3600

C33_GetReturnsAbsentAndReadsOnly ==
    [][\A p \in Requesters, user_id \in GetUsers :
         GetUserProfileBy(p, user_id)
            => /\ table' = table
               /\ cognito' = cognito
               /\ last' \in {"ok", "DatabaseError"}
               /\ last' = "ok"
                    => IF ProfileKey(user_id) \in DOMAIN table
                       THEN loc'[p].page = table[ProfileKey(user_id)]
                       ELSE loc'[p].page = NoItem]_vars

\* A lookup of an id with no row has returned the absent result while
\* another id has a row.
C33_Witness ==
    /\ loc["r1"].via = "get"
    /\ loc["r1"].user = "c2"
    /\ last = "ok"
    /\ loc["r1"].page = NoItem
    /\ ~HasProfile(table, "c2")
    /\ HasProfile(table, "c1")

\* The records of the account in ascending sort-key order, oldest first.
OldestFirst(t, user_id) ==
    LET newest == KeysNewestFirst(TransactionKeys(t, user_id))
    IN  [i \in 1..Len(newest) |-> t[newest[Len(newest) + 1 - i]]]

\* C34: for every account whose profile was written once, read in sort-key
\* (timestamp) order the records give a running balance: each record's
\* balanceAfter less its amount is the balanceAfter of the record before it,
\* and the newest record's balanceAfter is the stored balance.
C34_TimestampOrderIsCommitOrder ==
    \A u \in UserIds :
        (HasBalance(table, u) /\ u \notin overwritten)
            => LET records == OldestFirst(table, u)
               IN  /\ \A i \in 2..Len(records) :
                         records[i].balanceAfter - records[i].amount
                            = records[i - 1].balanceAfter
                   /\ records # <<>>
                         => records[Len(records)].balanceAfter = Balance(table, u)

\* C35: every interest record's amount is the balance just before its write
\* (balanceAfter less amount) times the account's rate, rounded half-up to
\* cents, also when the account is adjusted while the job runs.
C35_InterestOnBalanceBefore ==
    \A k \in AllTransactionKeys(table) :
        table[k].type = "interest"
            => IsRoundedHalfUp(table[k].amount,
                               (table[k].balanceAfter - table[k].amount)
                                  * Get(Profile(table, table[k].userId), "interestRate", 0))

(* The parents: two parent-role accounts that hold a balance and a rate, and
   a child of the first; parent p1 asks to adjust either parent's account or
   its child's, and the interest job runs beside the request *)

ParentTargets == ParentIds \cup {"c1"}
ParentAmounts == {[kind |-> "number", value |-> v] : v \in {10000, -10000}}

InitParents ==
    /\ table = create_user_profile(
                   create_user_profile(
                       create_user_profile(<<>>, "p1", "ep1", "Pat", "parent", None,
                                           10000, DEFAULT_INTEREST_RATE, 0),
                       "p2", "ep2", "Quin", "parent", None,
                       10000, DEFAULT_INTEREST_RATE, 0),
                   "c1", "e1", "Ann", "child", "p1", 10000, DEFAULT_INTEREST_RATE, 0)
    /\ now = 0
    /\ nextTx = 0
    /\ cognito = ("e1" :> [sub |-> "c1", group |-> "Children"])
    /\ subs = 1
    /\ pc = [p \in Procs |-> "idle"]
    /\ loc = [p \in Procs |-> Idle]
    /\ job = NoRun
    /\ last = None
    /\ created = [u \in ParentTargets |-> 10000]
    /\ overwritten = {}
    /\ returned = {}
    /\ writes = <<>>

AdjustBalanceRequestParents(p) ==
    \E child_id \in ParentTargets, amount \in ParentAmounts :
        AdjustBalanceRequestBy(p, "p1", child_id, amount)

UpdateUserRequestParents(p) ==
    \E target \in ParentIds : UpdateUserRequestBy(p, "p1", target, None, 7)

NextParents ==
    \/ \E p \in Requesters : AdjustBalanceRequestParents(p)
    \/ \E p \in Requesters : AdjustBalanceGet(p)
    \/ \E p \in Requesters : UpdateUserRequestParents(p)
    \/ \E p \in Requesters : UpdateUserGet(p)
    \/ \E p \in Requesters : UpdateUserUpdate(p)
    \/ \E p \in Procs : AdjustRead(p)
    \/ \E p \in Procs : AdjustWrite(p)
    \/ \E p \in Procs : Deliver(p)
    \/ JobScan
    \/ JobChild
    \/ JobFinish

SpecParents == InitParents /\ [][NextParents]_vars

\* The accounts whose stored role is parent.
ParentAccounts(t) ==
    {u \in UserIds : HasProfile(t, u) /\ Get(Profile(t, u), "role", None) = "parent"}

\* C36: an account whose role is parent keeps the balance it was created
\* with and never gets a TransactionRecord, whatever adjust-balance and
\* update-user requests arrive and however often the interest job runs.
C36_ParentBalanceNeverChanges ==
    /\ ParentAccounts(table) = ParentIds
    /\ \A u \in ParentAccounts(table) :
          /\ Balance(table, u) = created[u]
          /\ TransactionKeys(table, u) = {}

\* A request of p1 on a parent's account was refused after the job had paid
\* the child its interest; the parents hold a balance and a rate that would
\* earn interest.
C36_Witness ==
    /\ pc["r1"] = "respond"
    /\ last = "ForbiddenError"
    /\ \E k \in TransactionKeys(table, "c1") : table[k].type = "interest"
    /\ \A u \in ParentIds :
          /\ Balance(table, u) = 10000
          /\ Get(Profile(table, u), "interestRate", 0) = DEFAULT_INTEREST_RATE

(* The race: one call of adjust_balance_with_transaction after another on the
   child's account, and update_user_profile called on the same account while
   a call is between its read and its write *)

UpdateBetween(p) ==
    /\ pc[p] = "adj_write"
    /\ \E ua \in ProfileUpdateArgs : UpdateUserProfileBy(loc[p].user, ua[1], ua[2])

NextRace ==
    \/ AdjustStart("r1")
    \/ AdjustRead("r1")
    \/ UpdateBetween("r1")
    \/ AdjustWrite("r1")

SpecRace == InitFamily /\ [][NextRace]_vars

\* C37: when update_user_profile has committed on the account between the
\* read and the write of an adjustment, the write does not end in
\* ConflictError; when it commits, the balance becomes the one computed from
\* the read and the name and the rate stay as the update left them; when it
\* fails, it changes nothing. The update leaves the balance as it is.
C37_UpdateAndAdjustBothTakeEffect ==
    [][/\ WriteStep("r1")
           => LET u == loc["r1"].user
              IN  /\ last' \in {"ok", "DatabaseError"}
                  /\ last' = "ok"
                       => /\ Balance(table', u) = Balance(table, u) + loc["r1"].amount
                          /\ Balance(table', u) = loc["r1"].new
                          /\ Profile(table', u).name = Profile(table, u).name
                          /\ Profile(table', u).interestRate = Profile(table, u).interestRate
                  /\ last' # "ok" => table' = table
       /\ (pc["r1"] = "adj_write" /\ pc'["r1"] = "adj_write")
           => LET u == loc["r1"].user
              IN  /\ Balance(table', u) = Balance(table, u)
                  /\ Balance(table', u) = loc["r1"].cur]_vars

\* An adjustment of 10.00 has committed after the name and the rate were
\* changed between its read and its write: the account has the new name, the
\* new rate and the new balance.
C37_Witness ==
    /\ pc["r1"] = "idle"
    /\ last = "ok"
    /\ nextTx = 1
    /\ Profile(table, "c1").name = "Bob"
    /\ Profile(table, "c1").interestRate = 7
    /\ Balance(table, "c1") = 20000
    /\ Cardinality(TransactionKeys(table, "c1")) = 1

\* C38: a create-child request that ends without the 201 response leaves in
\* the identity directory no user it has created, whether it ended before
\* the profile write (user creation or group assignment failed) or at it.
C38_CreateChildAllOrNothing ==
    [][\A p \in Requesters :
         (pc'[p] = "respond" /\ last' # "Created")
            => /\ pc[p] = "idle" => DOMAIN cognito' \subseteq DOMAIN cognito
               /\ pc[p] = "cc_put" => loc[p].email \notin DOMAIN cognito']_vars
====
